---------------------------- MODULE Spec2Model ----------------------------
(***************************************************************************)
(* Brain Games Marketplace: the phase/timer state machines of the games    *)
(* and their trial generators.                                             *)
(*                                                                         *)
(* Every game is a React component: its useState cells are the fields of   *)
(* one record variable (gonogo, stroop, ...).  One action is one event     *)
(* (a timer callback, a key press, a click) together with the re-render    *)
(* and the effects that the event's state updates trigger.  setTimeout     *)
(* delays are not measured: a pending timer may fire whenever the effect   *)
(* that installed it is still installed.  Date.now() differences are       *)
(* drawn from small sets of latencies.  Math.random() is a pseudo random   *)
(* generator whose state is the variable rng; the state it has when a      *)
(* game starts is drawn from Seeds.  The inputs of a user are bounded by   *)
(* budget: every input spends one of it, except the inputs that a game is  *)
(* played through with (starting it, choosing its level, and the answers   *)
(* named free at the input actions).                                       *)
(***************************************************************************)
EXTENDS Integers, Sequences, FiniteSets, TLC

VARIABLES
    route,      \* the path the router shows ("/" is the marketplace)
    rng,        \* state of Math.random()
    input,      \* the handler the last step delivered a user input to, or "none"
    budget,     \* user inputs (other than the free ones) still allowed: bounds the inputs
    lim,        \* the limits of the run: [inputs, seeds, disks], fixed by the initial state
    gonogo,     \* GoNoGo component state
    stroop,     \* StroopTask component state
    flanker,    \* FlankerTask component state
    tswitch,    \* TaskSwitching component state
    corsi,      \* CorsiBlocks component state
    hanoi,      \* TowerOfHanoi component state
    trail,      \* TrailMaking component state
    ufov,       \* UFOV component state
    nback,      \* NBack component state
    dual,       \* DualNBack component state
    ravens,     \* RavensMatrices component state
    ospan,      \* OperationSpan component state
    orphans     \* the timers of unmounted components that are still pending

games == <<gonogo, stroop, flanker, tswitch, corsi, hanoi, trail, ufov, nback, dual, ravens, ospan>>
vars == <<route, rng, input, budget, lim, games, orphans>>

\* what an event of one game leaves alone
env == <<route, lim, orphans>>
Others_gonogo == <<stroop, flanker, tswitch, corsi, hanoi, trail, ufov, nback, dual, ravens, ospan>>
Others_stroop == <<gonogo, flanker, tswitch, corsi, hanoi, trail, ufov, nback, dual, ravens, ospan>>
Others_flanker == <<gonogo, stroop, tswitch, corsi, hanoi, trail, ufov, nback, dual, ravens, ospan>>
Others_tswitch == <<gonogo, stroop, flanker, corsi, hanoi, trail, ufov, nback, dual, ravens, ospan>>
Others_corsi == <<gonogo, stroop, flanker, tswitch, hanoi, trail, ufov, nback, dual, ravens, ospan>>
Others_hanoi == <<gonogo, stroop, flanker, tswitch, corsi, trail, ufov, nback, dual, ravens, ospan>>
Others_trail == <<gonogo, stroop, flanker, tswitch, corsi, hanoi, ufov, nback, dual, ravens, ospan>>
Others_ufov == <<gonogo, stroop, flanker, tswitch, corsi, hanoi, trail, nback, dual, ravens, ospan>>
Others_nback == <<gonogo, stroop, flanker, tswitch, corsi, hanoi, trail, ufov, dual, ravens, ospan>>
Others_dual == <<gonogo, stroop, flanker, tswitch, corsi, hanoi, trail, ufov, nback, ravens, ospan>>
Others_ravens == <<gonogo, stroop, flanker, tswitch, corsi, hanoi, trail, ufov, nback, dual, ospan>>
Others_ospan == <<gonogo, stroop, flanker, tswitch, corsi, hanoi, trail, ufov, nback, dual, ravens>>

(***************************************************************************)
(* Bounds of the model.                                                    *)
(***************************************************************************)
RngBits == 6
\* the specification of the whole application
GlobalInputs == 1
GlobalSeeds == 1
GlobalDisks == 4
\* the specifications of single games
DeepInputs == 2
DeepSeeds == 2
\* moves of a Tower of Hanoi game beyond the minimum
ExtraMoves == 1

(***************************************************************************)
(* Math.random(): a linear congruential generator modulo 2^RngBits.  The   *)
(* value returned is rng / Modulus, in [0, 1).                             *)
(***************************************************************************)
Modulus == 2 ^ RngBits
Seeds == 0 .. (lim.seeds - 1)
AllSeeds == 0 .. (Modulus - 1)
NextRng(x) == (5 * x + 3) % Modulus
\* Math.floor(Math.random() * n), for the draw that left the generator in state x
RandomIndex(x, n) == (x * n) \div Modulus
\* Math.random() < num/den and Math.random() > num/den
RandomBelow(x, num, den) == x * den < num * Modulus
RandomAbove(x, num, den) == x * den > num * Modulus

Null == 0 - 1

\* Start Game is free, Play Again is one of the bounded inputs; a game is
\* started when the timers left by the games before it (1500 ms at most) have
\* run out
CanStart(phase) == (phase = "results" => budget > 0) /\ orphans = {}
PlayAgainBudget(phase) == IF phase = "results" THEN budget - 1 ELSE budget

(***************************************************************************)
(* Go/No-Go                                                                *)
(***************************************************************************)
GoNoGo_Route == "/games/go-no-go"
GoNoGo_TOTAL_TRIALS == 30
\* GO_RATIO = 0.7 as the fraction 7/10
GoNoGo_GO_RATIO_NUM == 7
GoNoGo_GO_RATIO_DEN == 10
GoNoGo_Latencies == {350}

GoNoGo_GoTrial == [type |-> "go", shape |-> "circle"]
GoNoGo_NogoTrial == [type |-> "nogo", shape |-> "square"]

\* a shuffle step that copies a[j] to a[i] and loses a[i]
Overwrite(s, i, j) == [s EXCEPT ![i] = s[j]]

\* [a[i], a[j]] = [a[j], a[i]]
Swap(s, i, j) == [s EXCEPT ![i] = s[j], ![j] = s[i]]

\* the shuffle loop of generateTrials: i runs from length-1 down to 1 (0-based)
RECURSIVE GoNoGo_Shuffle(_, _, _)
GoNoGo_Shuffle(trials, i, x) ==
    IF i <= 0 THEN [out |-> trials, rng |-> x]
    ELSE LET x1 == NextRng(x)
             j == RandomIndex(x1, i + 1)
         IN GoNoGo_Shuffle(Swap(trials, i + 1, j + 1), i - 1, x1)

GoNoGo_goCount == (GoNoGo_TOTAL_TRIALS * GoNoGo_GO_RATIO_NUM) \div GoNoGo_GO_RATIO_DEN
GoNoGo_nogoCount == GoNoGo_TOTAL_TRIALS - GoNoGo_goCount

GoNoGo_Unshuffled ==
    [k \in 1 .. (GoNoGo_goCount + GoNoGo_nogoCount) |->
        IF k <= GoNoGo_goCount THEN GoNoGo_GoTrial ELSE GoNoGo_NogoTrial]

GoNoGo_generateTrials(x) ==
    GoNoGo_Shuffle(GoNoGo_Unshuffled, Len(GoNoGo_Unshuffled) - 1, x)

GoNoGo_Init ==
    [phase |-> "instructions", countdown |-> 3, trials |-> <<>>,
     currentTrial |-> 0, results |-> <<>>, feedback |-> "null",
     showFixation |-> FALSE, showStimulus |-> FALSE, responded |-> FALSE]

\* startGame: the Start button (instructions) and the Play Again button (results)
GoNoGo_startGame ==
    /\ route = GoNoGo_Route
    /\ CanStart(gonogo.phase)
    /\ gonogo.phase \in {"instructions", "results"}
    /\ \E seed \in Seeds :
        LET g == GoNoGo_generateTrials(seed)
        IN /\ gonogo' = [gonogo EXCEPT !.trials = g.out,
                                       !.phase = "countdown",
                                       !.countdown = 3]
           /\ rng' = g.rng
    /\ input' = "startGame"
    /\ budget' = PlayAgainBudget(gonogo.phase)
    /\ UNCHANGED <<env, Others_gonogo>>

\* a countdown effect that keeps the results of the session before
GoNoGo_CountdownEffectKeepingResults(s) ==
    IF s.phase = "countdown" /\ s.countdown = 0
    THEN [s EXCEPT !.phase = "playing", !.currentTrial = 0,
                   !.showFixation = TRUE, !.responded = FALSE]
    ELSE s

\* a countdown effect without the branch taken at 0
GoNoGo_CountdownEffectStopping(s) == s

\* the countdown effect: the 1000 ms timer, and the branch taken at 0
GoNoGo_CountdownEffect(s) ==
    IF s.phase = "countdown" /\ s.countdown = 0
    THEN [s EXCEPT !.phase = "playing", !.currentTrial = 0, !.results = <<>>,
                   !.showFixation = TRUE, !.responded = FALSE]
    ELSE s

GoNoGo_CountdownTimer ==
    /\ route = GoNoGo_Route
    /\ gonogo.phase = "countdown" /\ gonogo.countdown > 0
    /\ gonogo' = GoNoGo_CountdownEffect(
                    [gonogo EXCEPT !.countdown = gonogo.countdown - 1])
    /\ input' = "none"
    /\ UNCHANGED <<env, rng, budget, Others_gonogo>>

\* the fixation timer (FIXATION_DURATION + iti)
GoNoGo_FixationTimer ==
    /\ route = GoNoGo_Route
    /\ gonogo.phase = "playing" /\ gonogo.showFixation
    /\ gonogo' = [gonogo EXCEPT !.showFixation = FALSE, !.showStimulus = TRUE,
                                !.responded = FALSE]
    /\ input' = "none"
    /\ UNCHANGED <<env, rng, budget, Others_gonogo>>

\* the stimulus timer (STIMULUS_DURATION): nobody responded
GoNoGo_StimulusTimeout ==
    /\ route = GoNoGo_Route
    /\ gonogo.phase = "playing" /\ gonogo.showStimulus /\ ~gonogo.responded
    /\ LET trial == gonogo.trials[gonogo.currentTrial + 1]
           correct == trial.type = "nogo"
           result == [trial |-> trial, responded |-> FALSE, correct |-> correct,
                      responseTime |-> Null]
       IN gonogo' = [gonogo EXCEPT
                        !.results = Append(gonogo.results, result),
                        !.feedback = IF correct THEN "correct" ELSE "incorrect",
                        !.showStimulus = FALSE,
                        !.phase = "feedback"]
    /\ input' = "none"
    /\ UNCHANGED <<env, rng, budget, Others_gonogo>>

\* an early return that still lets a response through during the feedback
GoNoGo_returnsOutsideTrials(s) == s.phase \notin {"playing", "feedback"}

\* the early return of handleResponse
GoNoGo_returnsEarly(s) == s.phase # "playing" \/ ~s.showStimulus \/ s.responded

\* a handleResponse that sets the results to the new result alone
GoNoGo_handleResponseReplacing(s, rt) ==
    IF GoNoGo_returnsEarly(s)
    THEN s
    ELSE LET trial == s.trials[s.currentTrial + 1]
             correct == trial.type = "go"
             result == [trial |-> trial, responded |-> TRUE, correct |-> correct,
                        responseTime |-> rt]
         IN [s EXCEPT !.responded = TRUE,
                      !.results = <<result>>,
                      !.feedback = IF correct THEN "correct" ELSE "incorrect",
                      !.showStimulus = FALSE,
                      !.phase = "feedback"]

\* handleResponse, as applied to component state s with response time rt
\* a response counted as correct on every trial
GoNoGo_handleResponseAlwaysCorrect(s, rt) ==
    IF GoNoGo_returnsEarly(s)
    THEN s
    ELSE LET trial == s.trials[s.currentTrial + 1]
             result == [trial |-> trial, responded |-> TRUE, correct |-> TRUE,
                        responseTime |-> rt]
         IN [s EXCEPT !.responded = TRUE,
                      !.results = Append(s.results, result),
                      !.feedback = "correct",
                      !.showStimulus = FALSE,
                      !.phase = "feedback"]

GoNoGo_handleResponse(s, rt) ==
    IF GoNoGo_returnsEarly(s)
    THEN s
    ELSE LET trial == s.trials[s.currentTrial + 1]
             correct == trial.type = "go"
             result == [trial |-> trial, responded |-> TRUE, correct |-> correct,
                        responseTime |-> rt]
         IN [s EXCEPT !.responded = TRUE,
                      !.results = Append(s.results, result),
                      !.feedback = IF correct THEN "correct" ELSE "incorrect",
                      !.showStimulus = FALSE,
                      !.phase = "feedback"]

\* SPACE or Enter (the window keydown listener), or a click on the shape
GoNoGo_KeyPress ==
    /\ route = GoNoGo_Route
    /\ \E rt \in GoNoGo_Latencies :
        gonogo' = GoNoGo_handleResponse(gonogo, rt)
    /\ IF gonogo' # gonogo
       THEN budget > 0 /\ budget' = budget - 1
       ELSE budget' = budget
    /\ input' = "handleResponse"
    /\ UNCHANGED <<env, rng, Others_gonogo>>

\* the feedback timer (FEEDBACK_DURATION)
GoNoGo_FeedbackTimer ==
    /\ route = GoNoGo_Route
    /\ gonogo.phase = "feedback"
    /\ gonogo' =
        IF gonogo.currentTrial + 1 >= GoNoGo_TOTAL_TRIALS
        THEN [gonogo EXCEPT !.feedback = "null", !.phase = "results"]
        ELSE [gonogo EXCEPT !.feedback = "null",
                            !.currentTrial = gonogo.currentTrial + 1,
                            !.showFixation = TRUE,
                            !.phase = "playing"]
    /\ input' = "none"
    /\ UNCHANGED <<env, rng, budget, Others_gonogo>>

GoNoGo_Next ==
    \/ GoNoGo_startGame
    \/ GoNoGo_CountdownTimer
    \/ GoNoGo_FixationTimer
    \/ GoNoGo_StimulusTimeout
    \/ GoNoGo_KeyPress
    \/ GoNoGo_FeedbackTimer


(***************************************************************************)
(* Stroop Task                                                             *)
(***************************************************************************)
Stroop_Route == "/games/stroop-task"
Stroop_COLORS == <<"RED", "BLUE", "GREEN", "YELLOW", "PURPLE">>
Stroop_SpeedLevels == {"slow", "normal", "fast"}
\* SPEED_SETTINGS[speed].trialDuration
Stroop_trialDuration(speed) ==
    CASE speed = "slow" -> 3000
      [] speed = "normal" -> 2000
      [] speed = "fast" -> 1200
Stroop_TOTAL_TRIALS == 20
Stroop_TICK == 100

Stroop_NullTrial == [word |-> "null", backgroundColorName |-> "null", isMatch |-> FALSE]

\* a single draw of the background, the word's colour included
Stroop_drawBackgroundOnce(wordIndex, x) ==
    [index |-> RandomIndex(NextRng(x), Len(Stroop_COLORS)), rng |-> NextRng(x)]

\* the do-while of generateTrial: draw until the background differs from the word
RECURSIVE Stroop_drawBackground(_, _)
Stroop_drawBackground(wordIndex, x) ==
    LET x1 == NextRng(x)
        backgroundIndex == RandomIndex(x1, Len(Stroop_COLORS))
    IN IF backgroundIndex = wordIndex
       THEN Stroop_drawBackground(wordIndex, x1)
       ELSE [index |-> backgroundIndex, rng |-> x1]

Stroop_generateTrial(x) ==
    LET x1 == NextRng(x)
        isMatch == RandomAbove(x1, 1, 2)
        x2 == NextRng(x1)
        wordIndex == RandomIndex(x2, Len(Stroop_COLORS))
        bg == IF isMatch THEN [index |-> wordIndex, rng |-> x2]
              ELSE Stroop_drawBackground(wordIndex, x2)
    IN [out |-> [word |-> Stroop_COLORS[wordIndex + 1],
                 backgroundColorName |-> Stroop_COLORS[bg.index + 1],
                 isMatch |-> isMatch],
        rng |-> bg.rng]

Stroop_Init ==
    [phase |-> "instructions", speedLevel |-> "normal", countdown |-> 3,
     currentTrial |-> 0, trial |-> Stroop_NullTrial, timeLeft |-> 0,
     results |-> <<>>, feedback |-> "null"]

\* the speed buttons of the instructions view
Stroop_setSpeedLevel ==
    /\ route = Stroop_Route
    /\ stroop.phase = "instructions"
    /\ \E speed \in Stroop_SpeedLevels :
        stroop' = [stroop EXCEPT !.speedLevel = speed]
    /\ input' = "setSpeedLevel"
    /\ UNCHANGED <<env, rng, budget, Others_stroop>>

Stroop_startGame ==
    /\ route = Stroop_Route
    /\ CanStart(stroop.phase)
    /\ stroop.phase \in {"instructions", "results"}
    /\ stroop' = [stroop EXCEPT !.phase = "countdown", !.countdown = 3]
    /\ rng' \in Seeds
    /\ input' = "startGame"
    /\ budget' = PlayAgainBudget(stroop.phase)
    /\ UNCHANGED <<env, Others_stroop>>

Stroop_CountdownTimer ==
    /\ route = Stroop_Route
    /\ stroop.phase = "countdown" /\ stroop.countdown > 0
    /\ IF stroop.countdown - 1 = 0
       THEN LET g == Stroop_generateTrial(rng)
            IN /\ stroop' = [stroop EXCEPT
                                !.countdown = 0,
                                !.phase = "playing",
                                !.currentTrial = 0,
                                !.results = <<>>,
                                !.trial = g.out,
                                !.timeLeft = Stroop_trialDuration(stroop.speedLevel)]
               /\ rng' = g.rng
       ELSE /\ stroop' = [stroop EXCEPT !.countdown = stroop.countdown - 1]
            /\ rng' = rng
    /\ input' = "none"
    /\ UNCHANGED <<env, budget, Others_stroop>>

\* the timer effect at timeLeft = 0: the trial is recorded as a timeout
Stroop_TimeoutEffect(s) ==
    IF s.phase = "playing" /\ s.timeLeft = 0 /\ s.trial # Stroop_NullTrial
    THEN LET result == [trial |-> s.trial, response |-> FALSE, correct |-> FALSE,
                        responseTime |-> Stroop_trialDuration(s.speedLevel)]
         IN [s EXCEPT !.results = Append(s.results, result),
                      !.feedback = "timeout",
                      !.phase = "feedback"]
    ELSE s

\* the 100 ms timer of the timer effect
Stroop_TickTimer ==
    /\ route = Stroop_Route
    /\ stroop.phase = "playing" /\ stroop.timeLeft > 0
    /\ LET left == IF stroop.timeLeft - Stroop_TICK > 0
                   THEN stroop.timeLeft - Stroop_TICK ELSE 0
       IN stroop' = Stroop_TimeoutEffect([stroop EXCEPT !.timeLeft = left])
    /\ input' = "none"
    /\ UNCHANGED <<env, rng, budget, Others_stroop>>

Stroop_handleResponse(s, userSaysMatch, responseTime) ==
    IF s.phase # "playing" \/ s.trial = Stroop_NullTrial
    THEN s
    ELSE LET correct == (userSaysMatch = s.trial.isMatch)
             result == [trial |-> s.trial, response |-> userSaysMatch,
                        correct |-> correct, responseTime |-> responseTime]
         IN [s EXCEPT !.results = Append(s.results, result),
                      !.feedback = IF correct THEN "correct" ELSE "incorrect",
                      !.phase = "feedback"]

\* Date.now() - trialStart when the user answers in state s: a fast answer while
\* at most 400 ms of ticks have gone by, or an answer during the last tick that
\* comes in 30 ms after the nominal trial duration (the ticks run late).  The
\* value is not used when the answer is ignored.
Stroop_Latencies(s) ==
    LET d == Stroop_trialDuration(s.speedLevel)
    IN IF s.phase # "playing" THEN {0}
       ELSE {rt \in {400} : d - s.timeLeft <= rt}
            \cup {d + over : over \in {o \in {30} : s.timeLeft <= Stroop_TICK}}

\* ArrowLeft/A (match), ArrowRight/D (no match), or the two buttons
Stroop_KeyPress ==
    /\ route = Stroop_Route
    /\ \E userSaysMatch \in BOOLEAN :
        \E rt \in Stroop_Latencies(stroop) :
            stroop' = Stroop_handleResponse(stroop, userSaysMatch, rt)
    /\ IF stroop' # stroop
       THEN budget > 0 /\ budget' = budget - 1
       ELSE budget' = budget
    /\ input' = "handleResponse"
    /\ UNCHANGED <<env, rng, Others_stroop>>

Stroop_FeedbackTimer ==
    /\ route = Stroop_Route
    /\ stroop.phase = "feedback"
    /\ IF stroop.currentTrial + 1 >= Stroop_TOTAL_TRIALS
       THEN /\ stroop' = [stroop EXCEPT !.feedback = "null", !.phase = "results"]
            /\ rng' = rng
       ELSE LET g == Stroop_generateTrial(rng)
            IN /\ stroop' = [stroop EXCEPT
                                !.feedback = "null",
                                !.currentTrial = stroop.currentTrial + 1,
                                !.trial = g.out,
                                !.timeLeft = Stroop_trialDuration(stroop.speedLevel),
                                !.phase = "playing"]
               /\ rng' = g.rng
    /\ input' = "none"
    /\ UNCHANGED <<env, budget, Others_stroop>>

Stroop_Next ==
    \/ Stroop_setSpeedLevel
    \/ Stroop_startGame
    \/ Stroop_CountdownTimer
    \/ Stroop_TickTimer
    \/ Stroop_KeyPress
    \/ Stroop_FeedbackTimer

(***************************************************************************)
(* Flanker Task                                                            *)
(***************************************************************************)
Flanker_Route == "/games/flanker-task"
Flanker_TOTAL_TRIALS == 24
Flanker_types == <<"congruent", "congruent", "incongruent", "incongruent",
                   "neutral", "neutral">>
Flanker_directions == <<"left", "right">>
\* the latency of the free answer, and the other latency a user may have
Flanker_Latencies == {400, 700}
Flanker_FreeLatency == CHOOSE rt \in Flanker_Latencies : \A o \in Flanker_Latencies : rt <= o

\* the trials before the shuffle: trial i (0-based) of the generating loop
Flanker_Unshuffled ==
    [k \in 1 .. Flanker_TOTAL_TRIALS |->
        [targetDirection |-> Flanker_directions[((k - 1) % 2) + 1],
         type |-> Flanker_types[((k - 1) % Len(Flanker_types)) + 1]]]

RECURSIVE Flanker_Shuffle(_, _, _)
Flanker_Shuffle(trials, i, x) ==
    IF i <= 0 THEN [out |-> trials, rng |-> x]
    ELSE LET x1 == NextRng(x)
             j == RandomIndex(x1, i + 1)
         IN Flanker_Shuffle(Swap(trials, i + 1, j + 1), i - 1, x1)

Flanker_generateTrials(x) ==
    Flanker_Shuffle(Flanker_Unshuffled, Len(Flanker_Unshuffled) - 1, x)

Flanker_Init ==
    [phase |-> "instructions", countdown |-> 3, trials |-> <<>>,
     currentTrial |-> 0, results |-> <<>>, feedback |-> "null",
     showFixation |-> FALSE]

Flanker_startGame ==
    /\ route = Flanker_Route
    /\ CanStart(flanker.phase)
    /\ flanker.phase \in {"instructions", "results"}
    /\ \E seed \in Seeds :
        LET g == Flanker_generateTrials(seed)
        IN /\ flanker' = [flanker EXCEPT !.trials = g.out,
                                         !.phase = "countdown",
                                         !.countdown = 3]
           /\ rng' = g.rng
    /\ input' = "startGame"
    /\ budget' = PlayAgainBudget(flanker.phase)
    /\ UNCHANGED <<env, Others_flanker>>

Flanker_CountdownTimer ==
    /\ route = Flanker_Route
    /\ flanker.phase = "countdown" /\ flanker.countdown > 0
    /\ flanker' =
        IF flanker.countdown - 1 = 0
        THEN [flanker EXCEPT !.countdown = 0, !.phase = "playing",
                             !.currentTrial = 0, !.results = <<>>,
                             !.showFixation = TRUE]
        ELSE [flanker EXCEPT !.countdown = flanker.countdown - 1]
    /\ input' = "none"
    /\ UNCHANGED <<env, rng, budget, Others_flanker>>

Flanker_FixationTimer ==
    /\ route = Flanker_Route
    /\ flanker.phase = "playing" /\ flanker.showFixation
    /\ flanker' = [flanker EXCEPT !.showFixation = FALSE]
    /\ input' = "none"
    /\ UNCHANGED <<env, rng, budget, Others_flanker>>

Flanker_handleResponse(s, response, responseTime) ==
    IF s.phase # "playing" \/ s.showFixation \/ s.currentTrial + 1 > Len(s.trials)
    THEN s
    ELSE LET trial == s.trials[s.currentTrial + 1]
             correct == (response = trial.targetDirection)
             result == [trial |-> trial, response |-> response,
                        correct |-> correct, responseTime |-> responseTime]
         IN [s EXCEPT !.results = Append(s.results, result),
                      !.feedback = IF correct THEN "correct" ELSE "incorrect",
                      !.phase = "feedback"]

\* the answer that costs nothing: the correct one at the free latency
Flanker_IsFree(s, response, rt) ==
    /\ rt = Flanker_FreeLatency
    /\ s.currentTrial + 1 <= Len(s.trials)
    /\ response = s.trials[s.currentTrial + 1].targetDirection

\* ArrowLeft / ArrowRight, or the two buttons
Flanker_KeyPress ==
    /\ route = Flanker_Route
    /\ \E response \in {"left", "right"}, rt \in Flanker_Latencies :
        /\ flanker' = Flanker_handleResponse(flanker, response, rt)
        /\ IF flanker' # flanker /\ ~Flanker_IsFree(flanker, response, rt)
           THEN budget > 0 /\ budget' = budget - 1
           ELSE budget' = budget
    /\ input' = "handleResponse"
    /\ UNCHANGED <<env, rng, Others_flanker>>

Flanker_FeedbackTimer ==
    /\ route = Flanker_Route
    /\ flanker.phase = "feedback"
    /\ flanker' =
        IF flanker.currentTrial + 1 >= Flanker_TOTAL_TRIALS
        THEN [flanker EXCEPT !.feedback = "null", !.phase = "results"]
        ELSE [flanker EXCEPT !.feedback = "null",
                             !.currentTrial = flanker.currentTrial + 1,
                             !.showFixation = TRUE,
                             !.phase = "playing"]
    /\ input' = "none"
    /\ UNCHANGED <<env, rng, budget, Others_flanker>>

Flanker_Next ==
    \/ Flanker_startGame
    \/ Flanker_CountdownTimer
    \/ Flanker_FixationTimer
    \/ Flanker_KeyPress
    \/ Flanker_FeedbackTimer

(***************************************************************************)
(* Task Switching                                                          *)
(***************************************************************************)
TaskSwitching_Route == "/games/task-switching"
TaskSwitching_NUMBERS == <<1, 2, 3, 4, 6, 7, 8, 9>>
TaskSwitching_VOWELS == <<"A", "E", "I", "U">>
TaskSwitching_CONSONANTS == <<"G", "K", "M", "R">>
TaskSwitching_TOTAL_TRIALS == 32
TaskSwitching_Latencies == {500, 800}
TaskSwitching_FreeLatency ==
    CHOOSE rt \in TaskSwitching_Latencies : \A o \in TaskSwitching_Latencies : rt <= o

TaskSwitching_other(task) == IF task = "number" THEN "letter" ELSE "number"

\* the generating loop from trial i (0-based) on; Math.random() is drawn for the
\* switch only when i > 0 and i % 4 # 0, then for the number and for the letter
RECURSIVE TaskSwitching_generateFrom(_, _, _, _)
TaskSwitching_generateFrom(i, lastTask, newTrials, x) ==
    IF i >= TaskSwitching_TOTAL_TRIALS THEN [out |-> newTrials, rng |-> x]
    ELSE LET drawsSwitch == i > 0 /\ i % 4 # 0
             x1 == IF drawsSwitch THEN NextRng(x) ELSE x
             shouldSwitch == i > 0 /\ (i % 4 = 0 \/ RandomBelow(x1, 3, 10))
             task == IF shouldSwitch THEN TaskSwitching_other(lastTask) ELSE lastTask
             x2 == NextRng(x1)
             number == TaskSwitching_NUMBERS[RandomIndex(x2, Len(TaskSwitching_NUMBERS)) + 1]
             letters == TaskSwitching_VOWELS \o TaskSwitching_CONSONANTS
             x3 == NextRng(x2)
             letter == letters[RandomIndex(x3, Len(letters)) + 1]
             trial == [number |-> number, letter |-> letter, task |-> task,
                       isSwitch |-> (i > 0 /\ task # lastTask)]
         IN TaskSwitching_generateFrom(i + 1, task, Append(newTrials, trial), x3)

TaskSwitching_generateTrials(x) ==
    LET x1 == NextRng(x)
        lastTask == IF RandomAbove(x1, 1, 2) THEN "number" ELSE "letter"
    IN TaskSwitching_generateFrom(0, lastTask, <<>>, x1)

TaskSwitching_Init ==
    [phase |-> "instructions", countdown |-> 3, trials |-> <<>>,
     currentTrial |-> 0, results |-> <<>>, feedback |-> "null",
     showFixation |-> FALSE]

TaskSwitching_startGame ==
    /\ route = TaskSwitching_Route
    /\ CanStart(tswitch.phase)
    /\ tswitch.phase \in {"instructions", "results"}
    /\ \E seed \in Seeds :
        LET g == TaskSwitching_generateTrials(seed)
        IN /\ tswitch' = [tswitch EXCEPT !.trials = g.out,
                                         !.phase = "countdown",
                                         !.countdown = 3]
           /\ rng' = g.rng
    /\ input' = "startGame"
    /\ budget' = PlayAgainBudget(tswitch.phase)
    /\ UNCHANGED <<env, Others_tswitch>>

TaskSwitching_CountdownTimer ==
    /\ route = TaskSwitching_Route
    /\ tswitch.phase = "countdown" /\ tswitch.countdown > 0
    /\ tswitch' =
        IF tswitch.countdown - 1 = 0
        THEN [tswitch EXCEPT !.countdown = 0, !.phase = "playing",
                             !.currentTrial = 0, !.results = <<>>,
                             !.showFixation = TRUE]
        ELSE [tswitch EXCEPT !.countdown = tswitch.countdown - 1]
    /\ input' = "none"
    /\ UNCHANGED <<env, rng, budget, Others_tswitch>>

TaskSwitching_FixationTimer ==
    /\ route = TaskSwitching_Route
    /\ tswitch.phase = "playing" /\ tswitch.showFixation
    /\ tswitch' = [tswitch EXCEPT !.showFixation = FALSE]
    /\ input' = "none"
    /\ UNCHANGED <<env, rng, budget, Others_tswitch>>

InSeq(e, s) == \E k \in 1 .. Len(s) : s[k] = e

\* whether `response` is the right answer to `trial`
TaskSwitching_isCorrect(trial, response) ==
    IF trial.task = "number"
    THEN LET isEven == trial.number % 2 = 0
         IN (response = "even" /\ isEven) \/ (response = "odd" /\ ~isEven)
    ELSE LET isVowel == InSeq(trial.letter, TaskSwitching_VOWELS)
         IN (response = "vowel" /\ isVowel) \/ (response = "consonant" /\ ~isVowel)

TaskSwitching_handleResponse(s, response, responseTime) ==
    IF s.phase # "playing" \/ s.showFixation
    THEN s
    ELSE LET trial == s.trials[s.currentTrial + 1]
             correct == TaskSwitching_isCorrect(trial, response)
             result == [trial |-> trial, response |-> response,
                        correct |-> correct, responseTime |-> responseTime]
         IN [s EXCEPT !.results = Append(s.results, result),
                      !.feedback = IF correct THEN "correct" ELSE "incorrect",
                      !.phase = "feedback"]

\* the response a key (Z is the left one, M the right one) or a button stands for:
\* it depends on the task of the current trial
TaskSwitching_responseOf(s, left) ==
    IF s.currentTrial + 1 <= Len(s.trials) /\ s.trials[s.currentTrial + 1].task = "number"
    THEN (IF left THEN "even" ELSE "odd")
    ELSE (IF left THEN "vowel" ELSE "consonant")

TaskSwitching_IsFree(s, response, rt) ==
    /\ rt = TaskSwitching_FreeLatency
    /\ s.currentTrial + 1 <= Len(s.trials)
    /\ TaskSwitching_isCorrect(s.trials[s.currentTrial + 1], response)

\* the keydown listener returns outside the window before it reads the trial
TaskSwitching_KeyPress ==
    /\ route = TaskSwitching_Route
    /\ \E left \in BOOLEAN, rt \in TaskSwitching_Latencies :
        LET response == TaskSwitching_responseOf(tswitch, left)
        IN /\ tswitch' = IF tswitch.phase # "playing" \/ tswitch.showFixation
                         THEN tswitch
                         ELSE TaskSwitching_handleResponse(tswitch, response, rt)
           /\ IF tswitch' # tswitch /\ ~TaskSwitching_IsFree(tswitch, response, rt)
              THEN budget > 0 /\ budget' = budget - 1
              ELSE budget' = budget
    /\ input' = "handleResponse"
    /\ UNCHANGED <<env, rng, Others_tswitch>>

TaskSwitching_FeedbackTimer ==
    /\ route = TaskSwitching_Route
    /\ tswitch.phase = "feedback"
    /\ tswitch' =
        IF tswitch.currentTrial + 1 >= TaskSwitching_TOTAL_TRIALS
        THEN [tswitch EXCEPT !.feedback = "null", !.phase = "results"]
        ELSE [tswitch EXCEPT !.feedback = "null",
                             !.currentTrial = tswitch.currentTrial + 1,
                             !.showFixation = TRUE,
                             !.phase = "playing"]
    /\ input' = "none"
    /\ UNCHANGED <<env, rng, budget, Others_tswitch>>

TaskSwitching_Next ==
    \/ TaskSwitching_startGame
    \/ TaskSwitching_CountdownTimer
    \/ TaskSwitching_FixationTimer
    \/ TaskSwitching_KeyPress
    \/ TaskSwitching_FeedbackTimer

(***************************************************************************)
(* Corsi Block-Tapping                                                     *)
(***************************************************************************)
Corsi_Route == "/games/corsi-blocks"
Corsi_BLOCKS == 0 .. 8
Corsi_STARTING_SPAN == 3
Corsi_MAX_SPAN == 9

\* a loop that keeps every draw
RECURSIVE Corsi_generateFromAnyDraw(_, _, _)
Corsi_generateFromAnyDraw(seq, length, x) ==
    IF Len(seq) >= length THEN [out |-> seq, rng |-> x]
    ELSE LET x1 == NextRng(x)
         IN Corsi_generateFromAnyDraw(
                Append(seq, RandomIndex(x1, Cardinality(Corsi_BLOCKS))), length, x1)

\* the loop of generateSequence: a draw equal to the block before it is dropped
\* and drawn again
RECURSIVE Corsi_generateFrom(_, _, _)
Corsi_generateFrom(seq, length, x) ==
    IF Len(seq) >= length THEN [out |-> seq, rng |-> x]
    ELSE LET x1 == NextRng(x)
             randomIndex == RandomIndex(x1, Cardinality(Corsi_BLOCKS))
         IN IF Len(seq) >= 1 /\ seq[Len(seq)] = randomIndex
            THEN Corsi_generateFrom(seq, length, x1)
            ELSE Corsi_generateFrom(Append(seq, randomIndex), length, x1)

Corsi_generateSequence(length, x) == Corsi_generateFrom(<<>>, length, x)

\* pausing: the flash timer of the block being shown has fired and its pause
\* timer is pending; highlightTimers: pending 200 ms timers of clicked blocks
Corsi_Init ==
    [phase |-> "instructions", countdown |-> 3,
     currentSpan |-> Corsi_STARTING_SPAN, sequence |-> <<>>,
     showingIndex |-> 0, activeBlock |-> Null, userSequence |-> <<>>,
     feedback |-> "null", trials |-> <<>>, consecutiveErrors |-> 0,
     maxSpanReached |-> Corsi_STARTING_SPAN,
     pausing |-> FALSE, highlightTimers |-> 0]

\* the effect on [phase, showingIndex, sequence]
Corsi_ShowingEffect(s) ==
    IF s.phase # "showing" THEN s
    ELSE IF s.showingIndex < Len(s.sequence)
         THEN [s EXCEPT !.activeBlock = s.sequence[s.showingIndex + 1],
                        !.pausing = FALSE]
         ELSE [s EXCEPT !.phase = "responding"]

\* startTrial as created by the render in which currentSpan was `span`
Corsi_startTrial(s, span, x) ==
    LET g == Corsi_generateSequence(span, x)
    IN [state |-> Corsi_ShowingEffect(
                     [s EXCEPT !.sequence = g.out, !.showingIndex = 0,
                               !.userSequence = <<>>, !.phase = "showing"]),
        rng |-> g.rng]

\* a start that leaves the span where the last session ended
Corsi_startGameKeepingSpan ==
    /\ route = Corsi_Route
    /\ CanStart(corsi.phase)
    /\ corsi.phase \in {"instructions", "results"}
    /\ corsi' = [corsi EXCEPT !.phase = "countdown", !.countdown = 3,
                              !.trials = <<>>, !.consecutiveErrors = 0,
                              !.maxSpanReached = Corsi_STARTING_SPAN]
    /\ rng' \in Seeds
    /\ input' = "startGame"
    /\ budget' = PlayAgainBudget(corsi.phase)
    /\ UNCHANGED <<env, Others_corsi>>

Corsi_startGame ==
    /\ route = Corsi_Route
    /\ CanStart(corsi.phase)
    /\ corsi.phase \in {"instructions", "results"}
    /\ corsi' = [corsi EXCEPT !.phase = "countdown", !.countdown = 3,
                              !.currentSpan = Corsi_STARTING_SPAN,
                              !.trials = <<>>, !.consecutiveErrors = 0,
                              !.maxSpanReached = Corsi_STARTING_SPAN]
    /\ rng' \in Seeds
    /\ input' = "startGame"
    /\ budget' = PlayAgainBudget(corsi.phase)
    /\ UNCHANGED <<env, Others_corsi>>

Corsi_CountdownTimer ==
    /\ route = Corsi_Route
    /\ corsi.phase = "countdown" /\ corsi.countdown > 0
    /\ LET s1 == [corsi EXCEPT !.countdown = corsi.countdown - 1]
           t == Corsi_startTrial(s1, s1.currentSpan, rng)
       IN IF s1.countdown = 0
          THEN corsi' = t.state /\ rng' = t.rng
          ELSE corsi' = s1 /\ rng' = rng
    /\ input' = "none"
    /\ UNCHANGED <<env, budget, Others_corsi>>

Corsi_FlashTimer ==
    /\ route = Corsi_Route
    /\ corsi.phase = "showing" /\ ~corsi.pausing
    /\ corsi.showingIndex < Len(corsi.sequence)
    /\ corsi' = [corsi EXCEPT !.activeBlock = Null, !.pausing = TRUE]
    /\ input' = "none"
    /\ UNCHANGED <<env, rng, budget, Others_corsi>>

Corsi_PauseTimer ==
    /\ route = Corsi_Route
    /\ corsi.pausing
    /\ corsi' = Corsi_ShowingEffect(
                   [corsi EXCEPT !.showingIndex = corsi.showingIndex + 1,
                                 !.pausing = FALSE])
    /\ input' = "none"
    /\ UNCHANGED <<env, rng, budget, Others_corsi>>

Corsi_isCorrect(userSequence, sequence) ==
    \A index \in 1 .. Len(userSequence) :
        index <= Len(sequence) /\ userSequence[index] = sequence[index]

Max(a, b) == IF a >= b THEN a ELSE b
Min(a, b) == IF a <= b THEN a ELSE b

\* a handleBlockClick without its early return
Corsi_neverReturns(s) == FALSE

\* the early return of handleBlockClick
Corsi_returnsEarly(s) == s.phase # "responding"

Corsi_handleBlockClick(s, blockId) ==
    IF Corsi_returnsEarly(s) THEN s
    ELSE LET newUserSequence == Append(s.userSequence, blockId)
             s1 == [s EXCEPT !.userSequence = newUserSequence,
                             !.activeBlock = blockId,
                             !.highlightTimers = s.highlightTimers + 1]
             correct == Corsi_isCorrect(newUserSequence, s.sequence)
         IN IF Len(newUserSequence) = Len(s.sequence)
            THEN [s1 EXCEPT
                    !.feedback = IF correct THEN "correct" ELSE "incorrect",
                    !.trials = Append(s.trials,
                                  [span |-> s.currentSpan, correct |-> correct]),
                    !.consecutiveErrors =
                        IF correct THEN 0 ELSE s.consecutiveErrors + 1,
                    !.maxSpanReached =
                        IF correct THEN Max(s.maxSpanReached, s.currentSpan)
                        ELSE s.maxSpanReached,
                    !.phase = "feedback"]
            ELSE s1

\* the block the sequence asks for next, when there is one
Corsi_expected(s) ==
    IF Len(s.userSequence) < Len(s.sequence)
    THEN s.sequence[Len(s.userSequence) + 1] ELSE 0

\* the blocks a click is drawn from: the expected block (free) and one other
Corsi_Clicks(s) ==
    {Corsi_expected(s), (Corsi_expected(s) + 1) % Cardinality(Corsi_BLOCKS)}

Corsi_BlockClick ==
    /\ route = Corsi_Route
    /\ \E blockId \in Corsi_Clicks(corsi) :
        /\ corsi' = Corsi_handleBlockClick(corsi, blockId)
        /\ IF corsi' # corsi /\ blockId # Corsi_expected(corsi)
           THEN budget > 0 /\ budget' = budget - 1
           ELSE budget' = budget
    /\ input' = "handleBlockClick"
    /\ UNCHANGED <<env, rng, Others_corsi>>

\* setTimeout(() => setActiveBlock(null), 200), never cleared
Corsi_HighlightTimer ==
    /\ route = Corsi_Route
    /\ corsi.highlightTimers > 0
    /\ corsi' = [corsi EXCEPT !.activeBlock = Null,
                              !.highlightTimers = corsi.highlightTimers - 1]
    /\ input' = "none"
    /\ UNCHANGED <<env, rng, budget, Others_corsi>>

\* an end of the game on the first error
Corsi_endsOnFirstError(consecutiveErrors) == consecutiveErrors >= 1

\* consecutiveErrors >= 2
Corsi_endsOnErrors(consecutiveErrors) == consecutiveErrors >= 2

\* the 1500 ms timer of the feedback effect; the 200 ms timers are due before
\* it.  currentSpan and startTrial are those of the render that installed the
\* effect: startTrial generates for the span before setCurrentSpan applies.
Corsi_FeedbackTimer ==
    /\ route = Corsi_Route
    /\ corsi.phase = "feedback"
    /\ corsi.highlightTimers = 0
    /\ LET s1 == [corsi EXCEPT !.feedback = "null"]
           lastTrialCorrect == corsi.trials[Len(corsi.trials)].correct
           up == Corsi_startTrial([s1 EXCEPT !.currentSpan = corsi.currentSpan + 1],
                                  corsi.currentSpan, rng)
           again == Corsi_startTrial(s1, corsi.currentSpan, rng)
       IN IF Corsi_endsOnErrors(corsi.consecutiveErrors)
          THEN corsi' = [s1 EXCEPT !.phase = "results"] /\ rng' = rng
          ELSE IF lastTrialCorrect /\ corsi.currentSpan < Corsi_MAX_SPAN
          THEN corsi' = up.state /\ rng' = up.rng
          ELSE IF ~lastTrialCorrect
          THEN corsi' = again.state /\ rng' = again.rng
          ELSE corsi' = [s1 EXCEPT !.phase = "results"] /\ rng' = rng
    /\ input' = "none"
    /\ UNCHANGED <<env, budget, Others_corsi>>

Corsi_Next ==
    \/ Corsi_startGame
    \/ Corsi_CountdownTimer
    \/ Corsi_FlashTimer
    \/ Corsi_PauseTimer
    \/ Corsi_BlockClick
    \/ Corsi_HighlightTimer
    \/ Corsi_FeedbackTimer

(***************************************************************************)
(* Tower of Hanoi.  A disk {id: i, size: i} is the number i; a tower lists *)
(* its disks from the bottom to the top; towers[k + 1] is towers[k] of the *)
(* code.                                                                   *)
(***************************************************************************)
Hanoi_Route == "/games/tower-of-hanoi"
Hanoi_DiskChoices == {3, 4, 5, 6}
Hanoi_Towers == 0 .. 2

\* the moves the model lets a game make: the minimum and ExtraMoves more
Hanoi_MaxMoves(n) == 2 ^ n - 1 + ExtraMoves

\* the for loop of initializeTowers from i down to 1
RECURSIVE Hanoi_initialDisks(_)
Hanoi_initialDisks(i) ==
    IF i < 1 THEN <<>> ELSE <<i>> \o Hanoi_initialDisks(i - 1)

Hanoi_initializeTowers(disks) == <<Hanoi_initialDisks(disks), <<>>, <<>>>>

Hanoi_Init ==
    [phase |-> "instructions", countdown |-> 3, numDisks |-> 4,
     towers |-> <<<<>>, <<>>, <<>>>>, selectedTower |-> Null,
     moves |-> 0, minMoves |-> 0]

\* the disk-number buttons of the instructions screen
Hanoi_setNumDisks ==
    /\ route = Hanoi_Route
    /\ hanoi.phase = "instructions"
    /\ \E n \in Hanoi_DiskChoices :
        /\ n <= lim.disks
        /\ hanoi' = [hanoi EXCEPT !.numDisks = n]
    /\ input' = "setNumDisks"
    /\ UNCHANGED <<env, rng, budget, Others_hanoi>>

\* Math.pow(2, numDisks) - 1
Hanoi_minMovesFor(numDisks) == 2 ^ numDisks - 1

Hanoi_startGame ==
    /\ route = Hanoi_Route
    /\ CanStart(hanoi.phase)
    /\ hanoi.phase \in {"instructions", "results"}
    /\ hanoi' = [hanoi EXCEPT !.phase = "countdown", !.countdown = 3,
                              !.minMoves = Hanoi_minMovesFor(hanoi.numDisks)]
    /\ input' = "startGame"
    /\ budget' = PlayAgainBudget(hanoi.phase)
    /\ UNCHANGED <<env, rng, Others_hanoi>>

Hanoi_CountdownTimer ==
    /\ route = Hanoi_Route
    /\ hanoi.phase = "countdown" /\ hanoi.countdown > 0
    /\ hanoi' =
        IF hanoi.countdown - 1 = 0
        THEN [hanoi EXCEPT !.countdown = 0,
                           !.towers = Hanoi_initializeTowers(hanoi.numDisks),
                           !.moves = 0, !.selectedTower = Null,
                           !.phase = "playing"]
        ELSE [hanoi EXCEPT !.countdown = hanoi.countdown - 1]
    /\ input' = "none"
    /\ UNCHANGED <<env, rng, budget, Others_hanoi>>

Last(s) == s[Len(s)]
Front(s) == SubSeq(s, 1, Len(s) - 1)

\* the disk at the bottom of the tower
Hanoi_bottomDisk(sourceTower) == Head(sourceTower)

\* sourceTower[sourceTower.length - 1]
Hanoi_diskToMove(sourceTower) == Last(sourceTower)

\* a check that lets every move through
Hanoi_anyMove(diskToMove, targetTower) == TRUE

\* the check that a move is valid
Hanoi_validMove(diskToMove, targetTower) ==
    Len(targetTower) = 0 \/ diskToMove < Last(targetTower)

Hanoi_handleTowerClick(s, towerIndex) ==
    IF s.phase # "playing" THEN s
    ELSE IF s.selectedTower = Null
    THEN (IF Len(s.towers[towerIndex + 1]) > 0
          THEN [s EXCEPT !.selectedTower = towerIndex] ELSE s)
    ELSE IF s.selectedTower = towerIndex
    THEN [s EXCEPT !.selectedTower = Null]
    ELSE LET sourceTower == s.towers[s.selectedTower + 1]
             targetTower == s.towers[towerIndex + 1]
             diskToMove == Hanoi_diskToMove(sourceTower)
             newTowers == [s.towers EXCEPT
                              ![s.selectedTower + 1] = Front(sourceTower),
                              ![towerIndex + 1] = Append(targetTower, diskToMove)]
         IN IF Hanoi_validMove(diskToMove, targetTower)
            THEN [s EXCEPT !.towers = newTowers,
                           !.moves = s.moves + 1,
                           !.phase = IF Len(newTowers[3]) = s.numDisks
                                     THEN "results" ELSE s.phase,
                           !.selectedTower = Null]
            ELSE [s EXCEPT !.selectedTower = Null]

Hanoi_TowerClick ==
    /\ route = Hanoi_Route
    /\ \E towerIndex \in Hanoi_Towers :
        hanoi' = Hanoi_handleTowerClick(hanoi, towerIndex)
    /\ hanoi'.moves <= Hanoi_MaxMoves(hanoi.numDisks)
    /\ input' = "handleTowerClick"
    /\ UNCHANGED <<env, rng, budget, Others_hanoi>>

Hanoi_Next ==
    \/ Hanoi_setNumDisks
    \/ Hanoi_startGame
    \/ Hanoi_CountdownTimer
    \/ Hanoi_TowerClick

(***************************************************************************)
(* Trail Making Test B.  A node is [id, value, type]; its coordinates,     *)
(* which only place it on the board, are left out.                         *)
(***************************************************************************)
Trail_Route == "/games/trail-making"
Trail_LETTERS == <<"A", "B", "C", "D", "E", "F", "G", "H", "I", "J", "K", "L", "M">>
Trail_SEQUENCE_LENGTH == 13
\* String(k) for the numbers the game prints
Trail_String == <<"1", "2", "3", "4", "5", "6", "7">>

\* letters taken one place too far: 1, B, 2, C, ...
Trail_valueAtNextLetter(index) ==
    IF index % 2 = 0 THEN Trail_String[(index \div 2) + 1]
    ELSE Trail_LETTERS[(index \div 2) + 2]

\* the value of position index of the trail: 1, A, 2, B, 3, C, ...
Trail_valueAt(index) ==
    IF index % 2 = 0 THEN Trail_String[(index \div 2) + 1]
    ELSE Trail_LETTERS[(index \div 2) + 1]

Trail_generateNodes ==
    [k \in 1 .. Trail_SEQUENCE_LENGTH |->
        [id |-> k - 1, value |-> Trail_valueAt(k - 1),
         type |-> IF (k - 1) % 2 = 0 THEN "number" ELSE "letter"]]

Trail_Init ==
    [phase |-> "instructions", countdown |-> 3, nodes |-> <<>>,
     currentIndex |-> 0, visitedNodes |-> <<>>, errors |-> 0, lines |-> <<>>]

Trail_startGame ==
    /\ route = Trail_Route
    /\ CanStart(trail.phase)
    /\ trail.phase \in {"instructions", "results"}
    /\ trail' = [trail EXCEPT !.nodes = Trail_generateNodes,
                              !.phase = "countdown", !.countdown = 3]
    /\ input' = "startGame"
    /\ budget' = PlayAgainBudget(trail.phase)
    /\ UNCHANGED <<env, rng, Others_trail>>

Trail_CountdownTimer ==
    /\ route = Trail_Route
    /\ trail.phase = "countdown" /\ trail.countdown > 0
    /\ trail' =
        IF trail.countdown - 1 = 0
        THEN [trail EXCEPT !.countdown = 0, !.phase = "playing",
                           !.currentIndex = 0, !.visitedNodes = <<>>,
                           !.lines = <<>>, !.errors = 0]
        ELSE [trail EXCEPT !.countdown = trail.countdown - 1]
    /\ input' = "none"
    /\ UNCHANGED <<env, rng, budget, Others_trail>>

\* nodes.find(n => n.value === value): the first such node, Null when none
Trail_getExpectedNode(s, index) ==
    LET value == IF index < Trail_SEQUENCE_LENGTH THEN Trail_valueAt(index) ELSE "undefined"
        found == {k \in 1 .. Len(s.nodes) : s.nodes[k].value = value}
    IN IF found = {} THEN Null
       ELSE s.nodes[CHOOSE k \in found : \A o \in found : k <= o].id

\* node: the id of the clicked node
Trail_handleNodeClick(s, node) ==
    IF s.phase # "playing" THEN s
    ELSE IF node = Trail_getExpectedNode(s, s.currentIndex)
    THEN LET prevNode == IF s.currentIndex > 0
                         THEN Trail_getExpectedNode(s, s.currentIndex - 1) ELSE Null
             s1 == [s EXCEPT !.visitedNodes = Append(s.visitedNodes, node),
                             !.lines = IF prevNode # Null
                                       THEN Append(s.lines, [from |-> prevNode, to |-> node])
                                       ELSE s.lines]
         IN IF s.currentIndex + 1 >= Trail_SEQUENCE_LENGTH
            THEN [s1 EXCEPT !.phase = "results"]
            ELSE [s1 EXCEPT !.currentIndex = s.currentIndex + 1]
    ELSE [s EXCEPT !.errors = s.errors + 1]

\* the nodes a click is drawn from: the expected one (free) and the one after it
Trail_Clicks(s) ==
    {s.currentIndex % Trail_SEQUENCE_LENGTH, (s.currentIndex + 1) % Trail_SEQUENCE_LENGTH}

Trail_NodeClick ==
    /\ route = Trail_Route
    /\ \E node \in Trail_Clicks(trail) :
        /\ trail' = Trail_handleNodeClick(trail, node)
        /\ IF trail'.errors # trail.errors
           THEN budget > 0 /\ budget' = budget - 1
           ELSE budget' = budget
    /\ input' = "handleNodeClick"
    /\ UNCHANGED <<env, rng, Others_trail>>

Trail_Next ==
    \/ Trail_startGame
    \/ Trail_CountdownTimer
    \/ Trail_NodeClick

(***************************************************************************)
(* UFOV (Useful Field of View)                                             *)
(***************************************************************************)
UFOV_Route == "/games/ufov"
UFOV_TOTAL_TRIALS == 16
UFOV_POSITIONS == 8
UFOV_INITIAL_DISPLAY_TIME == 500
UFOV_STEP == 50
UFOV_MIN_DISPLAY_TIME == 50
UFOV_MAX_DISPLAY_TIME == 500
UFOV_NullTrial == [centerShape |-> "null", peripheralPosition |-> Null, displayTime |-> 0]

\* generateTrial as created by the render in which displayTime was `displayTime`
UFOV_generateTrial(displayTime, x) ==
    LET x1 == NextRng(x)
        x2 == NextRng(x1)
    IN [out |-> [centerShape |-> IF RandomAbove(x1, 1, 2) THEN "car" ELSE "truck",
                 peripheralPosition |-> RandomIndex(x2, UFOV_POSITIONS),
                 displayTime |-> displayTime],
        rng |-> x2]

UFOV_Init ==
    [phase |-> "instructions", countdown |-> 3, currentTrial |-> 0,
     trial |-> UFOV_NullTrial, results |-> <<>>, centerResponse |-> "null",
     peripheralResponse |-> Null, feedback |-> "null",
     displayTime |-> UFOV_INITIAL_DISPLAY_TIME]

\* a Start Game button rendered on every screen
UFOV_everyScreen ==
    {"instructions", "countdown", "fixation", "stimulus", "mask", "response",
     "feedback", "results"}

\* the screens that render the Start Game / Play Again button
UFOV_startScreens == {"instructions", "results"}

UFOV_startGame ==
    /\ route = UFOV_Route
    /\ CanStart(ufov.phase)
    /\ ufov.phase \in UFOV_startScreens
    /\ ufov' = [ufov EXCEPT !.phase = "countdown", !.countdown = 3,
                            !.displayTime = UFOV_INITIAL_DISPLAY_TIME]
    /\ rng' \in Seeds
    /\ input' = "startGame"
    /\ budget' = PlayAgainBudget(ufov.phase)
    /\ UNCHANGED <<env, Others_ufov>>

\* a generateTrial memoised once, with the display time of the first render
UFOV_FixationEffectFirstRender(s, x) ==
    LET g == UFOV_generateTrial(UFOV_INITIAL_DISPLAY_TIME, x)
    IN [state |-> [s EXCEPT !.trial = g.out], rng |-> g.rng]

\* the effect on [phase, generateTrial]: entering fixation draws the trial
UFOV_FixationEffect(s, x) ==
    LET g == UFOV_generateTrial(s.displayTime, x)
    IN [state |-> [s EXCEPT !.trial = g.out], rng |-> g.rng]

UFOV_CountdownTimer ==
    /\ route = UFOV_Route
    /\ ufov.phase = "countdown" /\ ufov.countdown > 0
    /\ LET f == UFOV_FixationEffect(
                   [ufov EXCEPT !.countdown = 0, !.currentTrial = 0,
                                !.results = <<>>, !.phase = "fixation"], rng)
       IN IF ufov.countdown - 1 = 0
          THEN ufov' = f.state /\ rng' = f.rng
          ELSE ufov' = [ufov EXCEPT !.countdown = ufov.countdown - 1] /\ rng' = rng
    /\ input' = "none"
    /\ UNCHANGED <<env, budget, Others_ufov>>

UFOV_FixationTimer ==
    /\ route = UFOV_Route
    /\ ufov.phase = "fixation"
    /\ ufov' = [ufov EXCEPT !.phase = "stimulus"]
    /\ input' = "none"
    /\ UNCHANGED <<env, rng, budget, Others_ufov>>

UFOV_StimulusTimer ==
    /\ route = UFOV_Route
    /\ ufov.phase = "stimulus" /\ ufov.trial # UFOV_NullTrial
    /\ ufov' = [ufov EXCEPT !.phase = "mask"]
    /\ input' = "none"
    /\ UNCHANGED <<env, rng, budget, Others_ufov>>

UFOV_MaskTimer ==
    /\ route = UFOV_Route
    /\ ufov.phase = "mask"
    /\ ufov' = [ufov EXCEPT !.centerResponse = "null",
                            !.peripheralResponse = Null,
                            !.phase = "response"]
    /\ input' = "none"
    /\ UNCHANGED <<env, rng, budget, Others_ufov>>

\* the Car and Truck buttons, rendered in the response phase; the answer that
\* matches the trial is free
UFOV_handleCenterResponse ==
    /\ route = UFOV_Route
    /\ ufov.phase = "response"
    /\ \E response \in {"car", "truck"} :
        /\ ufov' = [ufov EXCEPT !.centerResponse = response]
        /\ IF ufov' # ufov /\ response # ufov.trial.centerShape
           THEN budget > 0 /\ budget' = budget - 1
           ELSE budget' = budget
    /\ input' = "handleCenterResponse"
    /\ UNCHANGED <<env, rng, Others_ufov>>

\* the position buttons: the position of the trial (free) or the one after it
UFOV_handlePeripheralResponse ==
    /\ route = UFOV_Route
    /\ ufov.phase = "response"
    /\ \E position \in {ufov.trial.peripheralPosition,
                        (ufov.trial.peripheralPosition + 1) % UFOV_POSITIONS} :
        /\ ufov' = [ufov EXCEPT !.peripheralResponse = position]
        /\ IF ufov' # ufov /\ position # ufov.trial.peripheralPosition
           THEN budget > 0 /\ budget' = budget - 1
           ELSE budget' = budget
    /\ input' = "handlePeripheralResponse"
    /\ UNCHANGED <<env, rng, Others_ufov>>

\* a difficulty adjustment without Math.max / Math.min
UFOV_unclamped(prev, bothCorrect) ==
    IF bothCorrect THEN prev - UFOV_STEP ELSE prev + UFOV_STEP

\* the difficulty adjustment of handleSubmitResponse
UFOV_nextDisplayTime(prev, bothCorrect) ==
    IF bothCorrect THEN Max(prev - UFOV_STEP, UFOV_MIN_DISPLAY_TIME)
    ELSE Min(prev + UFOV_STEP, UFOV_MAX_DISPLAY_TIME)

UFOV_submit(s) ==
    IF s.centerResponse = "null" \/ s.peripheralResponse = Null
       \/ s.trial = UFOV_NullTrial
    THEN s
    ELSE LET centerCorrect == s.centerResponse = s.trial.centerShape
             peripheralCorrect == s.peripheralResponse = s.trial.peripheralPosition
             result == [trial |-> s.trial,
                        centerResponse |-> s.centerResponse,
                        peripheralResponse |-> s.peripheralResponse,
                        centerCorrect |-> centerCorrect,
                        peripheralCorrect |-> peripheralCorrect]
         IN [s EXCEPT
               !.results = Append(s.results, result),
               !.feedback = [center |-> centerCorrect, peripheral |-> peripheralCorrect],
               !.displayTime =
                   UFOV_nextDisplayTime(s.displayTime, centerCorrect /\ peripheralCorrect),
               !.phase = "feedback"]

\* the Submit button, rendered in the response phase
UFOV_handleSubmitResponse ==
    /\ route = UFOV_Route
    /\ ufov.phase = "response"
    /\ ufov' = UFOV_submit(ufov)
    /\ input' = "handleSubmitResponse"
    /\ UNCHANGED <<env, rng, budget, Others_ufov>>

UFOV_FeedbackTimer ==
    /\ route = UFOV_Route
    /\ ufov.phase = "feedback"
    /\ LET s1 == [ufov EXCEPT !.feedback = "null"]
           f == UFOV_FixationEffect(
                   [s1 EXCEPT !.currentTrial = ufov.currentTrial + 1,
                              !.phase = "fixation"], rng)
       IN IF ufov.currentTrial + 1 >= UFOV_TOTAL_TRIALS
          THEN ufov' = [s1 EXCEPT !.phase = "results"] /\ rng' = rng
          ELSE ufov' = f.state /\ rng' = f.rng
    /\ input' = "none"
    /\ UNCHANGED <<env, budget, Others_ufov>>

UFOV_Next ==
    \/ UFOV_startGame
    \/ UFOV_CountdownTimer
    \/ UFOV_FixationTimer
    \/ UFOV_StimulusTimer
    \/ UFOV_MaskTimer
    \/ UFOV_handleCenterResponse
    \/ UFOV_handlePeripheralResponse
    \/ UFOV_handleSubmitResponse
    \/ UFOV_FeedbackTimer

(***************************************************************************)
(* N-Back                                                                  *)
(***************************************************************************)
NBack_Route == "/games/n-back"
NBack_LETTERS == <<"B", "C", "D", "F", "G", "H", "J", "K", "L", "M",
                   "N", "P", "Q", "R", "S", "T", "V", "W", "X", "Z">>
NBack_TOTAL_TRIALS == 25
\* TARGET_RATIO = 0.3 as the fraction 3/10
NBack_TARGET_RATIO_NUM == 3
NBack_TARGET_RATIO_DEN == 10
NBack_Levels == {1, 2, 3}

\* seq[k] of the code, "undefined" outside the array
At(seq, k) == IF k >= 0 /\ k < Len(seq) THEN seq[k + 1] ELSE "undefined"

\* a single draw, whatever the letter n positions back
NBack_drawLetterOnce(seq, i, n, x) ==
    LET x1 == NextRng(x)
    IN [letter |-> NBack_LETTERS[RandomIndex(x1, Len(NBack_LETTERS)) + 1], rng |-> x1]

\* the do-while of generateSequence: draws until the letter differs from the
\* one n positions back
RECURSIVE NBack_drawLetter(_, _, _, _)
NBack_drawLetter(seq, i, n, x) ==
    LET x1 == NextRng(x)
        letter == NBack_LETTERS[RandomIndex(x1, Len(NBack_LETTERS)) + 1]
    IN IF i >= n /\ letter = At(seq, i - n)
       THEN NBack_drawLetter(seq, i, n, x1)
       ELSE [letter |-> letter, rng |-> x1]

\* the for loop of generateSequence from position i on.  Math.random() < 0.4 is
\* drawn only when i >= n and targets are still wanted.  made: the positions
\* filled by the branch that creates a target.
RECURSIVE NBack_generateFrom(_, _, _, _, _, _)
NBack_generateFrom(i, n, seq, currentTargets, made, x) ==
    IF i >= NBack_TOTAL_TRIALS THEN [out |-> seq, made |-> made, rng |-> x]
    ELSE LET targetCount == (NBack_TOTAL_TRIALS * NBack_TARGET_RATIO_NUM)
                                \div NBack_TARGET_RATIO_DEN
             draws == i >= n /\ currentTargets < targetCount
             x1 == IF draws THEN NextRng(x) ELSE x
             d == NBack_drawLetter(seq, i, n, x1)
         IN IF draws /\ RandomBelow(x1, 2, 5)
            THEN NBack_generateFrom(i + 1, n, Append(seq, At(seq, i - n)),
                                    currentTargets + 1, made \cup {i}, x1)
            ELSE NBack_generateFrom(i + 1, n, Append(seq, d.letter),
                                    currentTargets, made, d.rng)

NBack_generateSequence(n, x) == NBack_generateFrom(0, n, <<>>, 0, {}, x)

\* made is not a state of the component: it records what generateSequence did
NBack_Init ==
    [phase |-> "instructions", nLevel |-> 2, countdown |-> 3,
     sequence |-> <<>>, currentIndex |-> 0, currentLetter |-> "null",
     showLetter |-> FALSE, results |-> <<>>, responded |-> FALSE,
     lastFeedback |-> "null", made |-> {}]

\* the level buttons of the instructions screen
NBack_setNLevel ==
    /\ route = NBack_Route
    /\ nback.phase = "instructions"
    /\ \E level \in NBack_Levels : nback' = [nback EXCEPT !.nLevel = level]
    /\ input' = "setNLevel"
    /\ UNCHANGED <<env, rng, budget, Others_nback>>

NBack_startGame ==
    /\ route = NBack_Route
    /\ CanStart(nback.phase)
    /\ nback.phase \in {"instructions", "results"}
    /\ \E seed \in Seeds :
        LET g == NBack_generateSequence(nback.nLevel, seed)
        IN /\ nback' = [nback EXCEPT !.sequence = g.out, !.made = g.made,
                                     !.phase = "countdown", !.countdown = 3]
           /\ rng' = g.rng
    /\ input' = "startGame"
    /\ budget' = PlayAgainBudget(nback.phase)
    /\ UNCHANGED <<env, Others_nback>>

NBack_CountdownTimer ==
    /\ route = NBack_Route
    /\ nback.phase = "countdown" /\ nback.countdown > 0
    /\ nback' =
        IF nback.countdown - 1 = 0
        THEN [nback EXCEPT !.countdown = 0, !.phase = "playing",
                           !.currentIndex = 0, !.results = <<>>,
                           !.showLetter = TRUE,
                           !.currentLetter = At(nback.sequence, 0),
                           !.responded = FALSE]
        ELSE [nback EXCEPT !.countdown = nback.countdown - 1]
    /\ input' = "none"
    /\ UNCHANGED <<env, rng, budget, Others_nback>>

NBack_isTarget(s) ==
    /\ s.currentIndex >= s.nLevel
    /\ At(s.sequence, s.currentIndex) = At(s.sequence, s.currentIndex - s.nLevel)

\* the STIMULUS_DURATION timer: hides the letter and records a trial without response
NBack_StimulusTimer ==
    /\ route = NBack_Route
    /\ nback.phase = "playing" /\ nback.showLetter
    /\ LET isTarget == NBack_isTarget(nback)
           s1 == [nback EXCEPT !.showLetter = FALSE]
       IN nback' =
            IF ~nback.responded
            THEN [s1 EXCEPT
                    !.results = Append(nback.results,
                                  [position |-> nback.currentIndex,
                                   isTarget |-> isTarget,
                                   responded |-> FALSE,
                                   correct |-> ~isTarget]),
                    !.lastFeedback = IF isTarget THEN "incorrect"
                                     ELSE nback.lastFeedback]
            ELSE s1
    /\ input' = "none"
    /\ UNCHANGED <<env, rng, budget, Others_nback>>

\* the ISI_DURATION timer: the next letter, or the results
NBack_IsiTimer ==
    /\ route = NBack_Route
    /\ nback.phase = "playing" /\ ~nback.showLetter
    /\ nback' =
        IF nback.currentIndex + 1 >= NBack_TOTAL_TRIALS
        THEN [nback EXCEPT !.lastFeedback = "null", !.phase = "results"]
        ELSE [nback EXCEPT !.lastFeedback = "null",
                           !.currentIndex = nback.currentIndex + 1,
                           !.currentLetter = At(nback.sequence, nback.currentIndex + 1),
                           !.showLetter = TRUE,
                           !.responded = FALSE]
    /\ input' = "none"
    /\ UNCHANGED <<env, rng, budget, Others_nback>>

NBack_handleResponse(s) ==
    IF s.phase # "playing" \/ s.responded THEN s
    ELSE LET isTarget == NBack_isTarget(s)
         IN [s EXCEPT !.responded = TRUE,
                      !.results = Append(s.results,
                                    [position |-> s.currentIndex,
                                     isTarget |-> isTarget,
                                     responded |-> TRUE,
                                     correct |-> isTarget]),
                      !.lastFeedback = IF isTarget THEN "correct" ELSE "incorrect"]

\* Space / Enter, or the Match button; a press in one of the first nLevel
\* trials is free
NBack_KeyPress ==
    /\ route = NBack_Route
    /\ nback' = NBack_handleResponse(nback)
    /\ IF nback' # nback /\ nback.currentIndex >= nback.nLevel
       THEN budget > 0 /\ budget' = budget - 1
       ELSE budget' = budget
    /\ input' = "handleResponse"
    /\ UNCHANGED <<env, rng, Others_nback>>

NBack_Next ==
    \/ NBack_setNLevel
    \/ NBack_startGame
    \/ NBack_CountdownTimer
    \/ NBack_StimulusTimer
    \/ NBack_IsiTimer
    \/ NBack_KeyPress

(***************************************************************************)
(* Dual N-Back                                                             *)
(***************************************************************************)
Dual_Route == "/games/dual-n-back"
Dual_GRID_SIZE == 3
Dual_LETTERS == <<"C", "H", "K", "L", "Q", "R", "S", "T">>
Dual_TOTAL_TRIALS == 25
\* TARGET_RATIO = 0.25 as the fraction 1/4
Dual_TARGET_RATIO_NUM == 1
Dual_TARGET_RATIO_DEN == 4
Dual_Levels == {1, 2, 3}
Dual_NoResults ==
    [positionHit |-> 0, positionMiss |-> 0, positionFA |-> 0,
     audioHit |-> 0, audioMiss |-> 0, audioFA |-> 0]

RECURSIVE Dual_drawPosition(_, _, _, _)
Dual_drawPosition(trials, i, n, x) ==
    LET x1 == NextRng(x)
        position == RandomIndex(x1, Dual_GRID_SIZE * Dual_GRID_SIZE)
    IN IF i >= n /\ position = trials[i - n + 1].position
       THEN Dual_drawPosition(trials, i, n, x1)
       ELSE [position |-> position, rng |-> x1]

RECURSIVE Dual_drawLetter(_, _, _, _)
Dual_drawLetter(trials, i, n, x) ==
    LET x1 == NextRng(x)
        letter == Dual_LETTERS[RandomIndex(x1, Len(Dual_LETTERS)) + 1]
    IN IF i >= n /\ letter = trials[i - n + 1].letter
       THEN Dual_drawLetter(trials, i, n, x1)
       ELSE [letter |-> letter, rng |-> x1]

\* the for loop of generateSequence from trial i on; madePos and madeAudio: the
\* trials whose position / letter the target branch copied from n back
RECURSIVE Dual_generateFrom(_, _, _, _, _, _, _, _)
Dual_generateFrom(i, n, trials, currentPosTargets, currentAudioTargets, madePos, madeAudio, x) ==
    IF i >= Dual_TOTAL_TRIALS
    THEN [out |-> trials, madePos |-> madePos, madeAudio |-> madeAudio, rng |-> x]
    ELSE LET targets == (Dual_TOTAL_TRIALS * Dual_TARGET_RATIO_NUM)
                            \div Dual_TARGET_RATIO_DEN
             drawsP == i >= n /\ currentPosTargets < targets
             x1 == IF drawsP THEN NextRng(x) ELSE x
             posTarget == drawsP /\ RandomBelow(x1, 7, 20)
             dp == Dual_drawPosition(trials, i, n, x1)
             position == IF posTarget THEN trials[i - n + 1].position ELSE dp.position
             x2 == IF posTarget THEN x1 ELSE dp.rng
             drawsA == i >= n /\ currentAudioTargets < targets
             x3 == IF drawsA THEN NextRng(x2) ELSE x2
             audioTarget == drawsA /\ RandomBelow(x3, 7, 20)
             dl == Dual_drawLetter(trials, i, n, x3)
             letter == IF audioTarget THEN trials[i - n + 1].letter ELSE dl.letter
             x4 == IF audioTarget THEN x3 ELSE dl.rng
         IN Dual_generateFrom(i + 1, n,
                Append(trials, [position |-> position, letter |-> letter]),
                currentPosTargets + (IF posTarget THEN 1 ELSE 0),
                currentAudioTargets + (IF audioTarget THEN 1 ELSE 0),
                IF posTarget THEN madePos \cup {i} ELSE madePos,
                IF audioTarget THEN madeAudio \cup {i} ELSE madeAudio, x4)

Dual_generateSequence(n, x) == Dual_generateFrom(0, n, <<>>, 0, 0, {}, {}, x)

\* madePos and madeAudio are not state of the component: they record what
\* generateSequence did
Dual_Init ==
    [phase |-> "instructions", nLevel |-> 2, countdown |-> 3,
     sequence |-> <<>>, currentIndex |-> 0, showStimulus |-> FALSE,
     positionResponse |-> FALSE, audioResponse |-> FALSE,
     results |-> Dual_NoResults, madePos |-> {}, madeAudio |-> {}]

Dual_setNLevel ==
    /\ route = Dual_Route
    /\ dual.phase = "instructions"
    /\ \E level \in Dual_Levels : dual' = [dual EXCEPT !.nLevel = level]
    /\ input' = "setNLevel"
    /\ UNCHANGED <<env, rng, budget, Others_dual>>

Dual_startGame ==
    /\ route = Dual_Route
    /\ CanStart(dual.phase)
    /\ dual.phase \in {"instructions", "results"}
    /\ \E seed \in Seeds :
        LET g == Dual_generateSequence(dual.nLevel, seed)
        IN /\ dual' = [dual EXCEPT !.sequence = g.out,
                                   !.madePos = g.madePos,
                                   !.madeAudio = g.madeAudio,
                                   !.phase = "countdown", !.countdown = 3]
           /\ rng' = g.rng
    /\ input' = "startGame"
    /\ budget' = PlayAgainBudget(dual.phase)
    /\ UNCHANGED <<env, Others_dual>>

Dual_CountdownTimer ==
    /\ route = Dual_Route
    /\ dual.phase = "countdown" /\ dual.countdown > 0
    /\ dual' =
        IF dual.countdown - 1 = 0
        THEN [dual EXCEPT !.countdown = 0, !.phase = "playing",
                          !.currentIndex = 0, !.results = Dual_NoResults,
                          !.showStimulus = TRUE,
                          !.positionResponse = FALSE,
                          !.audioResponse = FALSE]
        ELSE [dual EXCEPT !.countdown = dual.countdown - 1]
    /\ input' = "none"
    /\ UNCHANGED <<env, rng, budget, Others_dual>>

\* a stimulus timer that tallies every trial
Dual_scoredAlways(currentIndex, nLevel) == TRUE

\* whether the stimulus timer tallies the trial at currentIndex
Dual_scored(currentIndex, nLevel) == currentIndex >= nLevel

Bit(b) == IF b THEN 1 ELSE 0

\* the trial n back; before there is one, a trial that matches nothing
Dual_back(s) ==
    IF s.currentIndex >= s.nLevel
    THEN s.sequence[s.currentIndex - s.nLevel + 1]
    ELSE [position |-> Null, letter |-> "undefined"]

\* a tally that counts a miss on every target, answered or not
Dual_tallyMissingEveryTarget(s) ==
    LET cur == s.sequence[s.currentIndex + 1]
        isPositionTarget == cur.position = Dual_back(s).position
        isAudioTarget == cur.letter = Dual_back(s).letter
        prev == s.results
    IN [positionHit |-> prev.positionHit + Bit(isPositionTarget /\ s.positionResponse),
        positionMiss |-> prev.positionMiss + Bit(isPositionTarget),
        positionFA |-> prev.positionFA + Bit(~isPositionTarget /\ s.positionResponse),
        audioHit |-> prev.audioHit + Bit(isAudioTarget /\ s.audioResponse),
        audioMiss |-> prev.audioMiss + Bit(isAudioTarget),
        audioFA |-> prev.audioFA + Bit(~isAudioTarget /\ s.audioResponse)]

Dual_tally(s) ==
    LET cur == s.sequence[s.currentIndex + 1]
        isPositionTarget == cur.position = Dual_back(s).position
        isAudioTarget == cur.letter = Dual_back(s).letter
        prev == s.results
    IN [positionHit |-> prev.positionHit + Bit(isPositionTarget /\ s.positionResponse),
        positionMiss |-> prev.positionMiss + Bit(isPositionTarget /\ ~s.positionResponse),
        positionFA |-> prev.positionFA + Bit(~isPositionTarget /\ s.positionResponse),
        audioHit |-> prev.audioHit + Bit(isAudioTarget /\ s.audioResponse),
        audioMiss |-> prev.audioMiss + Bit(isAudioTarget /\ ~s.audioResponse),
        audioFA |-> prev.audioFA + Bit(~isAudioTarget /\ s.audioResponse)]

Dual_StimulusTimer ==
    /\ route = Dual_Route
    /\ dual.phase = "playing" /\ dual.showStimulus
    /\ dual.currentIndex < Len(dual.sequence)
    /\ dual' = [dual EXCEPT
                  !.showStimulus = FALSE,
                  !.results = IF Dual_scored(dual.currentIndex, dual.nLevel)
                              THEN Dual_tally(dual) ELSE dual.results]
    /\ input' = "none"
    /\ UNCHANGED <<env, rng, budget, Others_dual>>

Dual_IsiTimer ==
    /\ route = Dual_Route
    /\ dual.phase = "playing" /\ ~dual.showStimulus
    /\ dual' =
        IF dual.currentIndex + 1 >= Dual_TOTAL_TRIALS
        THEN [dual EXCEPT !.phase = "results"]
        ELSE [dual EXCEPT !.currentIndex = dual.currentIndex + 1,
                          !.showStimulus = TRUE,
                          !.positionResponse = FALSE,
                          !.audioResponse = FALSE]
    /\ input' = "none"
    /\ UNCHANGED <<env, rng, budget, Others_dual>>

Dual_handlePositionResponse(s) ==
    IF s.phase = "playing" /\ ~s.positionResponse
    THEN [s EXCEPT !.positionResponse = TRUE] ELSE s

Dual_handleAudioResponse(s) ==
    IF s.phase = "playing" /\ ~s.audioResponse
    THEN [s EXCEPT !.audioResponse = TRUE] ELSE s

\* A (position) or L (audio), or the two buttons; a press in one of the first
\* nLevel trials is free
Dual_KeyPress ==
    /\ route = Dual_Route
    /\ \/ dual' = Dual_handlePositionResponse(dual) /\ input' = "handlePositionResponse"
       \/ dual' = Dual_handleAudioResponse(dual) /\ input' = "handleAudioResponse"
    /\ IF dual' # dual /\ dual.currentIndex >= dual.nLevel
       THEN budget > 0 /\ budget' = budget - 1
       ELSE budget' = budget
    /\ UNCHANGED <<env, rng, Others_dual>>

Dual_Next ==
    \/ Dual_setNLevel
    \/ Dual_startGame
    \/ Dual_CountdownTimer
    \/ Dual_StimulusTimer
    \/ Dual_IsiTimer
    \/ Dual_KeyPress

(***************************************************************************)
(* Raven's Matrices.  A puzzle is [options, correctIndex]; its grid and    *)
(* its rule text, which are only drawn, are left out.                      *)
(***************************************************************************)
Ravens_Route == "/games/ravens-matrices"
Ravens_SHAPES == <<"circle", "square", "triangle", "diamond">>
Ravens_PATTERNS == <<"solid", "striped", "dotted", "empty">>
Ravens_SIZES == <<"small", "medium", "large">>
Ravens_ROTATIONS == <<0, 45, 90>>
Ravens_TOTAL_PUZZLES == 8
Ravens_OPTIONS == 6

Ravens_correctAnswer(ruleType, baseShapeIndex, basePattern) ==
    IF ruleType = 0
    THEN [shape |-> Ravens_SHAPES[((baseShapeIndex + 2) % Len(Ravens_SHAPES)) + 1],
          pattern |-> basePattern, rotation |-> 0, size |-> "large"]
    ELSE IF ruleType = 1
    THEN [shape |-> Ravens_SHAPES[(2 % Len(Ravens_SHAPES)) + 1],
          pattern |-> Ravens_PATTERNS[(2 % Len(Ravens_PATTERNS)) + 1],
          rotation |-> 0, size |-> "medium"]
    ELSE [shape |-> Ravens_SHAPES[baseShapeIndex + 1],
          pattern |-> Ravens_PATTERNS[(2 % Len(Ravens_PATTERNS)) + 1],
          rotation |-> 90, size |-> "medium"]

\* the while loop that adds distractors that are not yet among the options
RECURSIVE Ravens_addDistractors(_, _)
Ravens_addDistractors(options, x) ==
    IF Len(options) >= Ravens_OPTIONS THEN [out |-> options, rng |-> x]
    ELSE LET x1 == NextRng(x)
             x2 == NextRng(x1)
             x3 == NextRng(x2)
             x4 == NextRng(x3)
             distractor ==
                 [shape |-> Ravens_SHAPES[RandomIndex(x1, Len(Ravens_SHAPES)) + 1],
                  pattern |-> Ravens_PATTERNS[RandomIndex(x2, Len(Ravens_PATTERNS)) + 1],
                  rotation |-> Ravens_ROTATIONS[RandomIndex(x3, Len(Ravens_ROTATIONS)) + 1],
                  size |-> Ravens_SIZES[RandomIndex(x4, Len(Ravens_SIZES)) + 1]]
         IN IF InSeq(distractor, options)
            THEN Ravens_addDistractors(options, x4)
            ELSE Ravens_addDistractors(Append(options, distractor), x4)

RECURSIVE Ravens_Shuffle(_, _, _)
Ravens_Shuffle(options, i, x) ==
    IF i <= 0 THEN [out |-> options, rng |-> x]
    ELSE LET x1 == NextRng(x)
             j == RandomIndex(x1, i + 1)
         IN Ravens_Shuffle(Swap(options, i + 1, j + 1), i - 1, x1)

Ravens_generatePuzzle(x) ==
    LET x1 == NextRng(x)
        ruleType == RandomIndex(x1, 3)
        x2 == NextRng(x1)
        baseShapeIndex == RandomIndex(x2, Len(Ravens_SHAPES))
        x3 == NextRng(x2)
        basePattern == Ravens_PATTERNS[RandomIndex(x3, Len(Ravens_PATTERNS)) + 1]
        correctAnswer == Ravens_correctAnswer(ruleType, baseShapeIndex, basePattern)
        d == Ravens_addDistractors(<<correctAnswer>>, x3)
        sh == Ravens_Shuffle(d.out, Len(d.out) - 1, d.rng)
        correctIndex == (CHOOSE k \in 1 .. Len(sh.out) :
                            /\ sh.out[k] = correctAnswer
                            /\ \A o \in 1 .. (k - 1) : sh.out[o] # correctAnswer) - 1
    IN [out |-> [options |-> sh.out, correctIndex |-> correctIndex], rng |-> sh.rng]

RECURSIVE Ravens_generatePuzzles(_, _, _)
Ravens_generatePuzzles(i, newPuzzles, x) ==
    IF i >= Ravens_TOTAL_PUZZLES THEN [out |-> newPuzzles, rng |-> x]
    ELSE LET g == Ravens_generatePuzzle(x)
         IN Ravens_generatePuzzles(i + 1, Append(newPuzzles, g.out), g.rng)

\* submitTimer: the 1500 ms timer of handleSubmit is pending
Ravens_Init ==
    [phase |-> "instructions", countdown |-> 3, currentPuzzle |-> 0,
     puzzles |-> <<>>, results |-> <<>>, selectedOption |-> Null,
     showFeedback |-> FALSE, submitTimer |-> FALSE]

Ravens_startGame ==
    /\ route = Ravens_Route
    /\ CanStart(ravens.phase)
    /\ ravens.phase \in {"instructions", "results"}
    /\ \E seed \in Seeds :
        LET g == Ravens_generatePuzzles(0, <<>>, seed)
        IN /\ ravens' = [ravens EXCEPT !.puzzles = g.out,
                                       !.phase = "countdown", !.countdown = 3]
           /\ rng' = g.rng
    /\ input' = "startGame"
    /\ budget' = PlayAgainBudget(ravens.phase)
    /\ UNCHANGED <<env, Others_ravens>>

Ravens_CountdownTimer ==
    /\ route = Ravens_Route
    /\ ravens.phase = "countdown" /\ ravens.countdown > 0
    /\ ravens' =
        IF ravens.countdown - 1 = 0
        THEN [ravens EXCEPT !.countdown = 0, !.currentPuzzle = 0,
                            !.results = <<>>, !.selectedOption = Null,
                            !.phase = "playing"]
        ELSE [ravens EXCEPT !.countdown = ravens.countdown - 1]
    /\ input' = "none"
    /\ UNCHANGED <<env, rng, budget, Others_ravens>>

\* the options are rendered while playing; the right one is free, the one
\* after it stands for the wrong ones
Ravens_handleOptionSelect ==
    /\ route = Ravens_Route
    /\ ravens.phase = "playing"
    /\ LET right == ravens.puzzles[ravens.currentPuzzle + 1].correctIndex
       IN \E index \in {right, (right + 1) % Ravens_OPTIONS} :
            /\ ravens' = IF ravens.showFeedback THEN ravens
                         ELSE [ravens EXCEPT !.selectedOption = index]
            /\ IF ravens' # ravens /\ index # right
               THEN budget > 0 /\ budget' = budget - 1
               ELSE budget' = budget
    /\ input' = "handleOptionSelect"
    /\ UNCHANGED <<env, rng, Others_ravens>>

\* the Submit button: rendered while playing, disabled without a selection and
\* during the feedback
Ravens_handleSubmit ==
    /\ route = Ravens_Route
    /\ ravens.phase = "playing" /\ ~ravens.showFeedback
    /\ ravens.selectedOption # Null
    /\ LET isCorrect == ravens.selectedOption =
                            ravens.puzzles[ravens.currentPuzzle + 1].correctIndex
       IN ravens' = [ravens EXCEPT !.results = Append(ravens.results, isCorrect),
                                   !.showFeedback = TRUE,
                                   !.submitTimer = TRUE]
    /\ input' = "handleSubmit"
    /\ UNCHANGED <<env, rng, budget, Others_ravens>>

\* the timer that handleSubmit starts; currentPuzzle is the one submitted
Ravens_SubmitTimer ==
    /\ route = Ravens_Route
    /\ ravens.submitTimer
    /\ LET s1 == [ravens EXCEPT !.showFeedback = FALSE,
                                !.selectedOption = Null,
                                !.submitTimer = FALSE]
       IN ravens' = IF ravens.currentPuzzle + 1 >= Ravens_TOTAL_PUZZLES
                    THEN [s1 EXCEPT !.phase = "results"]
                    ELSE [s1 EXCEPT !.currentPuzzle = ravens.currentPuzzle + 1]
    /\ input' = "none"
    /\ UNCHANGED <<env, rng, budget, Others_ravens>>

Ravens_Next ==
    \/ Ravens_startGame
    \/ Ravens_CountdownTimer
    \/ Ravens_handleOptionSelect
    \/ Ravens_handleSubmit
    \/ Ravens_SubmitTimer

(***************************************************************************)
(* Operation Span.  An equation is [answer, isCorrect, displayedAnswer];   *)
(* its text is left out.                                                   *)
(***************************************************************************)
OSpan_Route == "/games/operation-span"
OSpan_LETTERS == <<"F", "H", "J", "K", "L", "N", "P", "Q", "R", "S", "T", "Y">>
OSpan_MIN_SET_SIZE == 3
OSpan_MAX_SET_SIZE == 7
OSpan_SETS_PER_SIZE == 2

OSpan_generateEquation(x) ==
    LET x1 == NextRng(x)
        num1 == RandomIndex(x1, 10) + 1
        x2 == NextRng(x1)
        num2 == RandomIndex(x2, 10) + 1
        x3 == NextRng(x2)
        op == RandomIndex(x3, 3)
        answer == CASE op = 0 -> num1 + num2
                    [] op = 1 -> num1 - num2
                    [] op = 2 -> num1 * num2
        x4 == NextRng(x3)
        isCorrect == RandomAbove(x4, 1, 2)
        x5 == NextRng(x4)
        x6 == NextRng(x5)
        displayedAnswer ==
            IF isCorrect THEN answer
            ELSE answer + (IF RandomAbove(x5, 1, 2) THEN 1 ELSE 0 - 1)
                              * (RandomIndex(x6, 3) + 1)
    IN [out |-> [answer |-> answer, isCorrect |-> isCorrect,
                 displayedAnswer |-> displayedAnswer],
        rng |-> IF isCorrect THEN x4 ELSE x6]

\* the do-while of generateSet: draws until the letter is unused
RECURSIVE OSpan_drawLetter(_, _)
OSpan_drawLetter(letters, x) ==
    LET x1 == NextRng(x)
        letter == OSpan_LETTERS[RandomIndex(x1, Len(OSpan_LETTERS)) + 1]
    IN IF InSeq(letter, letters) THEN OSpan_drawLetter(letters, x1)
       ELSE [letter |-> letter, rng |-> x1]

RECURSIVE OSpan_generateSetFrom(_, _, _, _, _)
OSpan_generateSetFrom(i, size, equations, letters, x) ==
    IF i >= size
    THEN [out |-> [equations |-> equations, letters |-> letters, setSize |-> size],
          rng |-> x]
    ELSE LET e == OSpan_generateEquation(x)
             l == OSpan_drawLetter(letters, e.rng)
         IN OSpan_generateSetFrom(i + 1, size, Append(equations, e.out),
                                  Append(letters, l.letter), l.rng)

OSpan_generateSet(size, x) == OSpan_generateSetFrom(0, size, <<>>, <<>>, x)

\* the two nested for loops of generateAllSets, from (size, i) on
RECURSIVE OSpan_generateSetsFrom(_, _, _, _)
OSpan_generateSetsFrom(size, i, sets, x) ==
    IF size > OSpan_MAX_SET_SIZE THEN [out |-> sets, rng |-> x]
    ELSE IF i >= OSpan_SETS_PER_SIZE
    THEN OSpan_generateSetsFrom(size + 1, 0, sets, x)
    ELSE LET g == OSpan_generateSet(size, x)
         IN OSpan_generateSetsFrom(size, i + 1, Append(sets, g.out), g.rng)

RECURSIVE OSpan_Shuffle(_, _, _)
OSpan_Shuffle(sets, i, x) ==
    IF i <= 0 THEN [out |-> sets, rng |-> x]
    ELSE LET x1 == NextRng(x)
             j == RandomIndex(x1, i + 1)
         IN OSpan_Shuffle(Swap(sets, i + 1, j + 1), i - 1, x1)

OSpan_generateAllSets(x) ==
    LET g == OSpan_generateSetsFrom(OSpan_MIN_SET_SIZE, 0, <<>>, x)
    IN OSpan_Shuffle(g.out, Len(g.out) - 1, g.rng)

OSpan_Init ==
    [phase |-> "instructions", countdown |-> 3, allSets |-> <<>>,
     currentSetIndex |-> 0, currentItemIndex |-> 0, recalledLetters |-> <<>>,
     mathErrors |-> 0, setResults |-> <<>>]

OSpan_startGame ==
    /\ route = OSpan_Route
    /\ CanStart(ospan.phase)
    /\ ospan.phase \in {"instructions", "results"}
    /\ \E seed \in Seeds :
        LET g == OSpan_generateAllSets(seed)
        IN /\ ospan' = [ospan EXCEPT !.allSets = g.out,
                                     !.phase = "countdown", !.countdown = 3]
           /\ rng' = g.rng
    /\ input' = "startGame"
    /\ budget' = PlayAgainBudget(ospan.phase)
    /\ UNCHANGED <<env, Others_ospan>>

OSpan_CountdownTimer ==
    /\ route = OSpan_Route
    /\ ospan.phase = "countdown" /\ ospan.countdown > 0
    /\ ospan' =
        IF ospan.countdown - 1 = 0
        THEN [ospan EXCEPT !.countdown = 0, !.currentSetIndex = 0,
                           !.currentItemIndex = 0, !.setResults = <<>>,
                           !.mathErrors = 0, !.phase = "equation"]
        ELSE [ospan EXCEPT !.countdown = ospan.countdown - 1]
    /\ input' = "none"
    /\ UNCHANGED <<env, rng, budget, Others_ospan>>

OSpan_currentSet(s) == s.allSets[s.currentSetIndex + 1]

\* the True and False buttons, rendered in the equation phase; the right
\* judgement is free
OSpan_handleMathResponse ==
    /\ route = OSpan_Route
    /\ ospan.phase = "equation"
    /\ \E userSaysCorrect \in BOOLEAN :
        LET equation == OSpan_currentSet(ospan).equations[ospan.currentItemIndex + 1]
            wrong == userSaysCorrect # equation.isCorrect
        IN /\ ospan' = [ospan EXCEPT
                          !.mathErrors = ospan.mathErrors + Bit(wrong),
                          !.phase = "letter"]
           /\ IF wrong THEN budget > 0 /\ budget' = budget - 1
              ELSE budget' = budget
    /\ input' = "handleMathResponse"
    /\ UNCHANGED <<env, rng, Others_ospan>>

OSpan_LetterTimer ==
    /\ route = OSpan_Route
    /\ ospan.phase = "letter"
    /\ ospan' =
        IF ospan.currentItemIndex + 1 < OSpan_currentSet(ospan).setSize
        THEN [ospan EXCEPT !.currentItemIndex = ospan.currentItemIndex + 1,
                           !.phase = "equation"]
        ELSE [ospan EXCEPT !.recalledLetters = <<>>, !.phase = "recall"]
    /\ input' = "none"
    /\ UNCHANGED <<env, rng, budget, Others_ospan>>

\* prev.filter(l => l !== letter)
RECURSIVE Without(_, _)
Without(s, e) ==
    IF s = <<>> THEN <<>>
    ELSE IF Head(s) = e THEN Without(Tail(s), e)
    ELSE <<Head(s)>> \o Without(Tail(s), e)

OSpan_handleLetterClick(s, letter) ==
    IF s.phase # "recall" THEN s
    ELSE IF InSeq(letter, s.recalledLetters)
    THEN [s EXCEPT !.recalledLetters = Without(s.recalledLetters, letter)]
    ELSE [s EXCEPT !.recalledLetters = Append(s.recalledLetters, letter)]

\* the letter the set has at the place the recall has come to, when there is one
OSpan_expected(s) ==
    IF s.phase = "recall" /\ Len(s.recalledLetters) < OSpan_currentSet(s).setSize
    THEN OSpan_currentSet(s).letters[Len(s.recalledLetters) + 1]
    ELSE "undefined"

\* the letters a click is drawn from: the expected one (free) and the first of
\* the grid
OSpan_LetterClick ==
    /\ route = OSpan_Route
    /\ \E letter \in ({OSpan_expected(ospan)} \ {"undefined"}) \cup {OSpan_LETTERS[1]} :
        /\ ospan' = OSpan_handleLetterClick(ospan, letter)
        /\ IF ospan' # ospan /\ letter # OSpan_expected(ospan)
           THEN budget > 0 /\ budget' = budget - 1
           ELSE budget' = budget
    /\ input' = "handleLetterClick"
    /\ UNCHANGED <<env, rng, Others_ospan>>

\* the Clear button of the recall screen
OSpan_clearRecall ==
    /\ route = OSpan_Route
    /\ ospan.phase = "recall"
    /\ ospan' = [ospan EXCEPT !.recalledLetters = <<>>]
    /\ IF ospan' # ospan THEN budget > 0 /\ budget' = budget - 1
       ELSE budget' = budget
    /\ input' = "clearRecall"
    /\ UNCHANGED <<env, rng, Others_ospan>>

OSpan_correctCount(letters, recalledLetters) ==
    Cardinality({index \in 1 .. Len(letters) :
                    index <= Len(recalledLetters)
                    /\ recalledLetters[index] = letters[index]})

\* the Submit button: rendered in the recall phase, enabled when setSize
\* letters are recalled
OSpan_handleRecallSubmit ==
    /\ route = OSpan_Route
    /\ ospan.phase = "recall"
    /\ Len(ospan.recalledLetters) = OSpan_currentSet(ospan).setSize
    /\ ospan' = [ospan EXCEPT
                   !.setResults = Append(ospan.setResults,
                       [setSize |-> OSpan_currentSet(ospan).setSize,
                        correct |-> OSpan_correctCount(OSpan_currentSet(ospan).letters,
                                                       ospan.recalledLetters)]),
                   !.phase = "feedback"]
    /\ input' = "handleRecallSubmit"
    /\ UNCHANGED <<env, rng, budget, Others_ospan>>

OSpan_FeedbackTimer ==
    /\ route = OSpan_Route
    /\ ospan.phase = "feedback"
    /\ ospan' =
        IF ospan.currentSetIndex + 1 >= Len(ospan.allSets)
        THEN [ospan EXCEPT !.phase = "results"]
        ELSE [ospan EXCEPT !.currentSetIndex = ospan.currentSetIndex + 1,
                           !.currentItemIndex = 0,
                           !.phase = "equation"]
    /\ input' = "none"
    /\ UNCHANGED <<env, rng, budget, Others_ospan>>

OSpan_Next ==
    \/ OSpan_startGame
    \/ OSpan_CountdownTimer
    \/ OSpan_handleMathResponse
    \/ OSpan_LetterTimer
    \/ OSpan_LetterClick
    \/ OSpan_clearRecall
    \/ OSpan_handleRecallSubmit
    \/ OSpan_FeedbackTimer

(***************************************************************************)
(* The router (App) and the marketplace                                    *)
(***************************************************************************)
GameRoutes ==
    {Stroop_Route, Flanker_Route, GoNoGo_Route, NBack_Route, Dual_Route,
     Corsi_Route, OSpan_Route, TaskSwitching_Route, Trail_Route, UFOV_Route,
     Ravens_Route, Hanoi_Route}

\* data/games.ts: the games of the catalog, in its order
Catalog_games ==
    << [id |-> "stroop-task", category |-> "attention-inhibition", route |-> "/games/stroop-task"],
       [id |-> "flanker-task", category |-> "attention-inhibition", route |-> "/games/flanker-task"],
       [id |-> "go-no-go", category |-> "attention-inhibition", route |-> "/games/go-no-go"],
       [id |-> "n-back", category |-> "working-memory", route |-> "/games/n-back"],
       [id |-> "dual-n-back", category |-> "working-memory", route |-> "/games/dual-n-back"],
       [id |-> "corsi-blocks", category |-> "working-memory", route |-> "/games/corsi-blocks"],
       [id |-> "operation-span", category |-> "working-memory", route |-> "/games/operation-span"],
       [id |-> "task-switching", category |-> "processing-speed", route |-> "/games/task-switching"],
       [id |-> "trail-making", category |-> "processing-speed", route |-> "/games/trail-making"],
       [id |-> "ufov", category |-> "processing-speed", route |-> "/games/ufov"],
       [id |-> "ravens-matrices", category |-> "reasoning-problem-solving", route |-> "/games/ravens-matrices"],
       [id |-> "tower-of-hanoi", category |-> "reasoning-problem-solving", route |-> "/games/tower-of-hanoi"] >>

\* getCategoriesWithCounts: the reduce over games, from index i on
RECURSIVE Catalog_countFrom(_, _)
Catalog_countFrom(i, acc) ==
    IF i > Len(Catalog_games) THEN acc
    ELSE LET category == Catalog_games[i].category
             seen == IF category \in DOMAIN acc THEN acc
                     ELSE [c \in DOMAIN acc \cup {category} |->
                              IF c = category THEN 0 ELSE acc[c]]
         IN Catalog_countFrom(i + 1, [seen EXCEPT ![category] = seen[category] + 1])

getCategoriesWithCounts == Catalog_countFrom(1, <<>>)

\* the <Route> elements of App: path and element
App_Routes ==
    { <<"/", "Marketplace">>,
      <<Stroop_Route, "StroopTask">>, <<Flanker_Route, "FlankerTask">>,
      <<GoNoGo_Route, "GoNoGo">>, <<NBack_Route, "NBack">>,
      <<Dual_Route, "DualNBack">>, <<Corsi_Route, "CorsiBlocks">>,
      <<OSpan_Route, "OperationSpan">>, <<TaskSwitching_Route, "TaskSwitching">>,
      <<Trail_Route, "TrailMaking">>, <<UFOV_Route, "UFOV">>,
      <<Ravens_Route, "RavensMatrices">>, <<Hanoi_Route, "TowerOfHanoi">> }

\* what <Routes> renders at a path: the element of the route that matches
\* it, and nothing when none does
App_rendered(path) ==
    IF \E r \in App_Routes : r[1] = path
    THEN (CHOOSE r \in App_Routes : r[1] = path)[2]
    ELSE "nothing"

\* the view GamePage returns for a game id; no route of App has GamePage as
\* its element
GamePage(gameId) ==
    IF \E k \in 1 .. Len(Catalog_games) : Catalog_games[k].id = gameId
    THEN "Game Coming Soon" ELSE "Game Not Found"

\* paths /games/<gameId> typed into the address bar, with their gameId
TypedPaths ==
    { [path |-> "/games/chess", gameId |-> "chess"],
      [path |-> "/games/stroop", gameId |-> "stroop"] }

\* every component as it is constructed
Unmounted ==
    /\ gonogo = GoNoGo_Init /\ stroop = Stroop_Init /\ flanker = Flanker_Init
    /\ tswitch = TaskSwitching_Init /\ corsi = Corsi_Init /\ hanoi = Hanoi_Init
    /\ trail = Trail_Init /\ ufov = UFOV_Init /\ nback = NBack_Init
    /\ dual = Dual_Init /\ ravens = Ravens_Init /\ ospan = OSpan_Init

\* Marketplace.handleGameClick: navigate(game.route) mounts the game
Navigate ==
    /\ route = "/"
    /\ \E r \in GameRoutes : route' = r
    /\ input' = "navigate"
    /\ budget' = lim.inputs
    /\ UNCHANGED <<rng, lim, games, orphans>>

\* handleSubmit's setTimeout (1500 ms) is not created by an effect: nothing
\* clears it
Ravens_leftPending(s) ==
    IF s.submitTimer THEN {"Ravens.handleSubmit"} ELSE {}

\* the pause timer is created inside the flash timer's callback, whose return
\* value is dropped, and the click highlight timer is created by the handler
Corsi_leftPending(s) ==
    (IF s.pausing THEN {"Corsi.pauseTimer"} ELSE {})
        \cup (IF s.highlightTimers > 0 THEN {"Corsi.handleBlockClick"} ELSE {})

\* the Back button of a game: navigate('/') unmounts it: its state is dropped
\* and the cleanups of its effects clear their timers; the timers no cleanup
\* clears stay pending
Back ==
    /\ route \in GameRoutes
    /\ route' = "/"
    /\ orphans' = orphans \cup Ravens_leftPending(ravens) \cup Corsi_leftPending(corsi)
    /\ gonogo' = GoNoGo_Init /\ stroop' = Stroop_Init /\ flanker' = Flanker_Init
    /\ tswitch' = TaskSwitching_Init /\ corsi' = Corsi_Init /\ hanoi' = Hanoi_Init
    /\ trail' = Trail_Init /\ ufov' = UFOV_Init /\ nback' = NBack_Init
    /\ dual' = Dual_Init /\ ravens' = Ravens_Init /\ ospan' = OSpan_Init
    /\ input' = "navigate"
    /\ UNCHANGED <<rng, budget, lim>>

\* the address bar: a typed path is loaded, or the marketplace from it; the
\* page is loaded anew, so no component and no timer is left
OpenPath ==
    /\ \/ \E t \in TypedPaths : route # t.path /\ route' = t.path
       \/ route \notin {r[1] : r \in App_Routes} /\ route' = "/"
    /\ gonogo' = GoNoGo_Init /\ stroop' = Stroop_Init /\ flanker' = Flanker_Init
    /\ tswitch' = TaskSwitching_Init /\ corsi' = Corsi_Init /\ hanoi' = Hanoi_Init
    /\ trail' = Trail_Init /\ ufov' = UFOV_Init /\ nback' = NBack_Init
    /\ dual' = Dual_Init /\ ravens' = Ravens_Init /\ ospan' = OSpan_Init
    /\ orphans' = {}
    /\ input' = "navigate"
    /\ budget' = lim.inputs
    /\ UNCHANGED <<rng, lim>>

\* a timer of an unmounted component fires: its callback sets the state of a
\* component that is gone, which React drops
OrphanTimer ==
    /\ \E t \in orphans : orphans' = orphans \ {t}
    /\ input' = "none"
    /\ UNCHANGED <<route, rng, budget, lim, games>>

\* the application showing path r, with the limits l
InitAt(r, l) ==
    /\ route = r
    /\ rng = 0
    /\ input = "none"
    /\ lim = l
    /\ budget = l.inputs
    /\ orphans = {}
    /\ Unmounted

Init ==
    InitAt("/", [inputs |-> GlobalInputs, seeds |-> GlobalSeeds, disks |-> GlobalDisks])

Next ==
    \/ Navigate
    \/ Back
    \/ OpenPath
    \/ OrphanTimer
    \/ GoNoGo_Next
    \/ Stroop_Next
    \/ Flanker_Next
    \/ TaskSwitching_Next
    \/ Corsi_Next
    \/ Hanoi_Next
    \/ Trail_Next
    \/ UFOV_Next
    \/ NBack_Next
    \/ Dual_Next
    \/ Ravens_Next
    \/ OSpan_Next

Spec == Init /\ [][Next]_vars


(***************************************************************************)
(* Specifications of single games: the game is mounted from the start, and *)
(* only its events occur.                                                  *)
(***************************************************************************)
DeepLimits ==
    [inputs |-> DeepInputs, seeds |-> DeepSeeds,
     disks |-> CHOOSE n \in Hanoi_DiskChoices : \A o \in Hanoi_DiskChoices : o <= n]

SpecHanoi == InitAt(Hanoi_Route, DeepLimits) /\ [][Hanoi_Next]_vars

SpecUFOV == InitAt(UFOV_Route, DeepLimits) /\ [][UFOV_Next]_vars

SpecCorsi == InitAt(Corsi_Route, DeepLimits) /\ [][Corsi_Next]_vars

\* the two games whose trials end by a response or by a timeout
InitTrials ==
    \E r \in {GoNoGo_Route, Stroop_Route} :
        InitAt(r, [inputs |-> GlobalInputs, seeds |-> DeepSeeds, disks |-> GlobalDisks])

SpecTrials == InitTrials /\ [][GoNoGo_Next \/ Stroop_Next]_vars

\* the timer-paced games, each with its timers: a timer that stays pending
\* fires
InitTimed ==
    \E r \in {GoNoGo_Route, Stroop_Route, NBack_Route, Dual_Route} :
        InitAt(r, [inputs |-> GlobalInputs, seeds |-> GlobalSeeds, disks |-> GlobalDisks])

GoNoGo_Timers ==
    \/ GoNoGo_CountdownTimer \/ GoNoGo_FixationTimer
    \/ GoNoGo_StimulusTimeout \/ GoNoGo_FeedbackTimer

Stroop_Timers == Stroop_CountdownTimer \/ Stroop_TickTimer \/ Stroop_FeedbackTimer

NBack_Timers == NBack_CountdownTimer \/ NBack_StimulusTimer \/ NBack_IsiTimer

Dual_Timers == Dual_CountdownTimer \/ Dual_StimulusTimer \/ Dual_IsiTimer

SpecTimed ==
    /\ InitTimed
    /\ [][GoNoGo_Next \/ Stroop_Next \/ NBack_Next \/ Dual_Next]_vars
    /\ WF_vars(GoNoGo_Timers) /\ WF_vars(Stroop_Timers)
    /\ WF_vars(NBack_Timers) /\ WF_vars(Dual_Timers)

\* generateSequence of Corsi Blocks applied to every length from STARTING_SPAN
\* to MAX_SPAN in every state of Math.random(); currentSpan holds the length
\* asked for
Corsi_Generate ==
    /\ route = Corsi_Route
    /\ \E length \in Corsi_STARTING_SPAN .. Corsi_MAX_SPAN :
        \E x \in AllSeeds :
            LET g == Corsi_generateSequence(length, x)
            IN /\ corsi' = [corsi EXCEPT !.currentSpan = length, !.sequence = g.out]
               /\ rng' = g.rng
    /\ input' = "none"
    /\ UNCHANGED <<env, budget, Others_corsi>>

SpecCorsiSequences == InitAt(Corsi_Route, DeepLimits) /\ [][Corsi_Generate]_vars

\* the games with a generated trial list, over every state of Math.random()
InitGenerated ==
    \E r \in {GoNoGo_Route, NBack_Route, Dual_Route} :
        InitAt(r, [inputs |-> 0, seeds |-> Modulus, disks |-> GlobalDisks])

SpecGenerated == InitGenerated /\ [][GoNoGo_Next \/ NBack_Next \/ Dual_Next]_vars

(***************************************************************************)
(* The statistics of the results screens.  A quotient a / b of the code is  *)
(* kept exact, as the pair [num |-> a, den |-> b].                          *)
(***************************************************************************)
\* (results.filter(r => r.correct).length / results.length) * 100
PercentCorrect(results) ==
    [num |-> 100 * Cardinality({k \in 1 .. Len(results) : results[k].correct}),
     den |-> Len(results)]

\* overallAccuracy of GoNoGo.calculateStats
GoNoGo_accuracy(s) == PercentCorrect(s.results)

\* accuracy of StroopTask.calculateStats
Stroop_accuracy(s) == PercentCorrect(s.results)

\* accuracy of FlankerTask.calculateStats
Flanker_accuracy(s) == PercentCorrect(s.results)

\* accuracy of TaskSwitching.calculateStats
TaskSwitching_accuracy(s) == PercentCorrect(s.results)

\* accuracy of NBack.calculateStats: 0 without results
NBack_accuracy(s) ==
    IF Len(s.results) > 0 THEN PercentCorrect(s.results) ELSE [num |-> 0, den |-> 1]

\* accuracy of CorsiBlocks.calculateStats: 0 without trials
Corsi_accuracy(s) ==
    IF Len(s.trials) > 0 THEN PercentCorrect(s.trials) ELSE [num |-> 0, den |-> 1]

UFOV_bothCorrect(r) == r.centerCorrect /\ r.peripheralCorrect

\* overallAccuracy of UFOV.calculateStats
UFOV_overallAccuracy(s) ==
    [num |-> 100 * Cardinality({k \in 1 .. Len(s.results) :
                                    UFOV_bothCorrect(s.results[k])}),
     den |-> Len(s.results)]

\* the Accuracy card of the Raven's results: correct answers over TOTAL_PUZZLES
Ravens_accuracy(s) ==
    [num |-> 100 * Cardinality({k \in 1 .. Len(s.results) : s.results[k]}),
     den |-> Ravens_TOTAL_PUZZLES]

\* Go/No-Go calculateStats: the three rates, as quotients
GoNoGo_calculateStats(s) ==
    LET K == 1 .. Len(s.results)
        goTrials == {k \in K : s.results[k].trial.type = "go"}
        nogoTrials == {k \in K : s.results[k].trial.type = "nogo"}
        goCorrect == {k \in goTrials : s.results[k].correct}
        nogoCorrect == {k \in nogoTrials : s.results[k].correct}
        Rate(n, of) == IF Cardinality(of) > 0
                       THEN [num |-> 100 * n, den |-> Cardinality(of)]
                       ELSE [num |-> 0, den |-> 1]
    IN [hitRate |-> Rate(Cardinality(goCorrect), goTrials),
        correctRejectionRate |-> Rate(Cardinality(nogoCorrect), nogoTrials),
        falseAlarmRate |->
            Rate(Cardinality(nogoTrials) - Cardinality(nogoCorrect), nogoTrials)]

\* N-Back calculateStats: the four outcome counts
NBack_calculateStats(s) ==
    LET K == 1 .. Len(s.results)
        targetTrials == {k \in K : s.results[k].isTarget}
        nonTargetTrials == {k \in K : ~s.results[k].isTarget}
    IN [hits |-> Cardinality({k \in targetTrials :
                                s.results[k].responded /\ s.results[k].correct}),
        misses |-> Cardinality({k \in targetTrials : ~s.results[k].responded}),
        correctRejections |->
            Cardinality({k \in nonTargetTrials : ~s.results[k].responded}),
        falseAlarms |-> Cardinality({k \in nonTargetTrials : s.results[k].responded})]

\* a - b of two quotients
Minus(a, b) == [num |-> a.num * b.den - b.num * a.den, den |-> a.den * b.den]

\* results.filter(r => r.trial.type === type)
Flanker_ofType(results, type) == SelectSeq(results, LAMBDA r : r.trial.type = type)

\* trials.reduce((sum, r) => sum + r.responseTime, 0)
RECURSIVE SumResponseTime(_)
SumResponseTime(results) ==
    IF results = <<>> THEN 0
    ELSE SumResponseTime(Front(results)) + Last(results).responseTime

\* the mean response time of calculateStats: 0 over no trials
MeanResponseTime(results) ==
    IF Len(results) > 0 THEN [num |-> SumResponseTime(results), den |-> Len(results)]
    ELSE [num |-> 0, den |-> 1]

\* Stroop calculateStats: the answered trials, their average response time
\* as a quotient, and the timeouts
Stroop_calculateStats(s) ==
    LET d == Stroop_trialDuration(s.speedLevel)
        answeredTrials == SelectSeq(s.results, LAMBDA r : r.responseTime < d)
    IN [answered |-> Len(answeredTrials),
        avgResponseTime |->
            IF Len(answeredTrials) > 0
            THEN [num |-> SumResponseTime(answeredTrials), den |-> Len(answeredTrials)]
            ELSE [num |-> 0, den |-> 1],
        timeouts |-> Len(SelectSeq(s.results, LAMBDA r : r.responseTime >= d))]

\* the difference the other way round
Flanker_congruentMinusIncongruent(s) ==
    Minus(MeanResponseTime(Flanker_ofType(s.results, "congruent")),
          MeanResponseTime(Flanker_ofType(s.results, "incongruent")))

\* flankerEffect = incongruentRT - congruentRT
Flanker_flankerEffect(s) ==
    Minus(MeanResponseTime(Flanker_ofType(s.results, "incongruent")),
          MeanResponseTime(Flanker_ofType(s.results, "congruent")))

\* results.filter(r => r.trial.isSwitch) and results.filter(r => !r.trial.isSwitch)
TaskSwitching_ofSwitch(results, isSwitch) ==
    SelectSeq(results, LAMBDA r : r.trial.isSwitch = isSwitch)

\* switchCost = switchRT - repeatRT
TaskSwitching_switchCost(s) ==
    Minus(MeanResponseTime(TaskSwitching_ofSwitch(s.results, TRUE)),
          MeanResponseTime(TaskSwitching_ofSwitch(s.results, FALSE)))

(***************************************************************************)
(* The properties.                                                         *)
(***************************************************************************)
TrialLoop(phase) == phase \notin {"instructions", "countdown", "results"}

\* the phases t that may follow the phases s of a mounted game
PhaseStep(s, t) ==
    /\ s.phase = "instructions" => t.phase \in {"instructions", "countdown"}
    /\ s.phase = "countdown" =>
          t.phase = "countdown" \/ (TrialLoop(t.phase) /\ t.countdown = 0)
    /\ TrialLoop(s.phase) => TrialLoop(t.phase) \/ t.phase = "results"
    /\ s.phase = "results" => t.phase \in {"results", "countdown"}

\* C1: in every game, while it stays mounted, the phase moves only along
\* instructions -> countdown -> trial loop -> results: countdown is entered
\* only from instructions or results, the trial loop only from a countdown that
\* has reached 0, results only from the trial loop, and instructions is never
\* entered again.
C1_PhaseOrder ==
    [][route' = route =>
          /\ PhaseStep(gonogo, gonogo') /\ PhaseStep(stroop, stroop')
          /\ PhaseStep(flanker, flanker') /\ PhaseStep(tswitch, tswitch')
          /\ PhaseStep(corsi, corsi') /\ PhaseStep(hanoi, hanoi')
          /\ PhaseStep(trail, trail') /\ PhaseStep(ufov, ufov')
          /\ PhaseStep(nback, nback') /\ PhaseStep(dual, dual')
          /\ PhaseStep(ravens, ravens') /\ PhaseStep(ospan, ospan')]_vars

\* a UFOV game played to its results and started again
C1_Witness ==
    /\ ufov.phase = "countdown"
    /\ Len(ufov.results) = 16

\* the accepting windows of the games
GoNoGo_Accepting(s) == s.phase = "playing" /\ s.showStimulus /\ ~s.responded
Flanker_Accepting(s) == s.phase = "playing" /\ ~s.showFixation
TaskSwitching_Accepting(s) == s.phase = "playing" /\ ~s.showFixation
Stroop_Accepting(s) == s.phase = "playing"
Corsi_Accepting(s) == s.phase = "responding"
Hanoi_Accepting(s) == s.phase = "playing"
Trail_Accepting(s) == s.phase = "playing"

\* C2: a response delivered outside the accepting window of its game leaves
\* the whole state of the game (results, trial index, phase, counters) as it was.
C2_IgnoredOutsideWindow ==
    [][/\ (route = GoNoGo_Route /\ input' = "handleResponse"
              /\ ~GoNoGo_Accepting(gonogo)) => gonogo' = gonogo
       /\ (route = Flanker_Route /\ input' = "handleResponse"
              /\ ~Flanker_Accepting(flanker)) => flanker' = flanker
       /\ (route = TaskSwitching_Route /\ input' = "handleResponse"
              /\ ~TaskSwitching_Accepting(tswitch)) => tswitch' = tswitch
       /\ (route = Stroop_Route /\ input' = "handleResponse"
              /\ ~Stroop_Accepting(stroop)) => stroop' = stroop
       /\ (route = Corsi_Route /\ input' = "handleBlockClick"
              /\ ~Corsi_Accepting(corsi)) => corsi' = corsi
       /\ (route = Hanoi_Route /\ input' = "handleTowerClick"
              /\ ~Hanoi_Accepting(hanoi)) => hanoi' = hanoi
       /\ (route = Trail_Route /\ input' = "handleNodeClick"
              /\ ~Trail_Accepting(trail)) => trail' = trail]_vars

\* a block clicked while the second block of a Corsi sequence is shown
C2_Witness ==
    /\ route = Corsi_Route
    /\ input = "handleBlockClick"
    /\ corsi.phase = "showing"
    /\ corsi.showingIndex = 1
    /\ corsi.userSequence = <<>>

C4_MinimumMoves ==
    /\ hanoi.phase # "instructions" => hanoi.minMoves = 2 ^ hanoi.numDisks - 1
    /\ hanoi.phase = "results" =>
          /\ Len(hanoi.towers[3]) = hanoi.numDisks
          /\ hanoi.moves >= 2 ^ hanoi.numDisks - 1

\* six disks solved in 63 moves
C4_Witness ==
    /\ hanoi.phase = "results"
    /\ hanoi.numDisks = 6
    /\ hanoi.moves = 63

Hanoi_Decreasing(tower) ==
    \A k \in 1 .. (Len(tower) - 1) : tower[k] > tower[k + 1]

Hanoi_HoldsEachDiskOnce(towers, n) ==
    /\ Len(towers[1]) + Len(towers[2]) + Len(towers[3]) = n
    /\ \A d \in 1 .. n : \E t \in 1 .. 3 : InSeq(d, towers[t])

Hanoi_WellStacked ==
    hanoi.phase \in {"playing", "results"} =>
        /\ \A t \in 1 .. 3 : Hanoi_Decreasing(hanoi.towers[t])
        /\ Hanoi_HoldsEachDiskOnce(hanoi.towers, hanoi.numDisks)

\* an accepted move takes the top disk of the selected tower to the top of
\* the clicked one, and nothing else changes the towers during play
Hanoi_MoveTransfersTop ==
    /\ hanoi'.moves = hanoi.moves + 1 =>
          \E from \in 1 .. 3 : \E to \in (1 .. 3) \ {from} :
              /\ from = hanoi.selectedTower + 1
              /\ hanoi.towers[from] # <<>>
              /\ hanoi'.towers =
                    [hanoi.towers EXCEPT
                        ![from] = SubSeq(hanoi.towers[from], 1, Len(hanoi.towers[from]) - 1),
                        ![to] = hanoi.towers[to]
                                  \o <<hanoi.towers[from][Len(hanoi.towers[from])]>>]
    /\ (hanoi.phase = "playing" /\ hanoi'.moves # hanoi.moves + 1) =>
          hanoi'.towers = hanoi.towers

\* C5: Tower of Hanoi: during play every tower is strictly decreasing from
\* bottom to top, the towers hold the disks 1..n once each, and an accepted
\* move transfers exactly the top disk of the selected tower.
C5_HanoiRules == []Hanoi_WellStacked /\ [][Hanoi_MoveTransfersTop]_vars

\* a game of five disks in which two disks stand on the middle tower
C5_Witness ==
    /\ hanoi.phase = "playing"
    /\ hanoi.numDisks = 5
    /\ hanoi.moves > 0
    /\ Len(hanoi.towers[2]) = 2

UFOV_DisplayTimeInRange ==
    /\ ufov.displayTime \in {50 * k : k \in 1 .. 10}
    /\ ufov.phase \in {"instructions", "countdown"} => ufov.displayTime = 500
    /\ ufov.results # <<>> => ufov.results[1].trial.displayTime = 500

UFOV_StaircaseStep ==
    IF Len(ufov'.results) = Len(ufov.results) + 1
    THEN LET r == ufov'.results[Len(ufov'.results)]
             both == /\ r.centerResponse = r.trial.centerShape
                     /\ r.peripheralResponse = r.trial.peripheralPosition
         IN ufov'.displayTime =
              IF both
              THEN (IF ufov.displayTime - 50 < 50 THEN 50 ELSE ufov.displayTime - 50)
              ELSE (IF ufov.displayTime + 50 > 500 THEN 500 ELSE ufov.displayTime + 50)
    ELSE input' # "startGame" => ufov'.displayTime = ufov.displayTime

\* C6: UFOV: a submitted trial with both answers right lowers the display time
\* by 50 ms, any other raises it by 50 ms, clamped to [50, 500]; the display
\* time is always a multiple of 50 in [50, 500] and a game starts at 500.
C6_Staircase == []UFOV_DisplayTimeInRange /\ [][UFOV_StaircaseStep]_vars

\* the display time at its floor after a game with a wrong answer in it
C6_Witness ==
    /\ ufov.displayTime = 50
    /\ ufov.phase = "feedback"
    /\ \E k \in 1 .. Len(ufov.results) : ~ufov.results[k].peripheralCorrect

\* C7: Corsi: the sequence shown and to be reproduced has the length of the
\* current span, the span of the header and of the trial result.
C7_SequenceLengthIsSpan ==
    corsi.phase \in {"showing", "responding", "feedback"} =>
        Len(corsi.sequence) = corsi.currentSpan

Corsi_TwoErrors(trials) ==
    /\ Len(trials) >= 2
    /\ ~trials[Len(trials)].correct
    /\ ~trials[Len(trials) - 1].correct

Corsi_CorrectAtMaxSpan(trials) ==
    /\ trials[Len(trials)].correct
    /\ trials[Len(trials)].span = 9

\* C8: Corsi: the game ends exactly when the last two trials were both wrong
\* or a trial at span 9 was right; results are entered from the feedback
\* only; a right answer sets the count of consecutive errors to 0.
C8_CorsiEnds ==
    [][/\ (corsi.phase = "feedback" /\ corsi'.phase # "feedback") =>
              (corsi'.phase = "results"
                  <=> Corsi_TwoErrors(corsi.trials) \/ Corsi_CorrectAtMaxSpan(corsi.trials))
       /\ (corsi.phase # "results" /\ corsi'.phase = "results") =>
              corsi.phase = "feedback"
       /\ (Len(corsi'.trials) = Len(corsi.trials) + 1
              /\ corsi'.trials[Len(corsi'.trials)].correct) =>
              corsi'.consecutiveErrors = 0]_vars

\* a game that went on after one wrong trial and ended by a right one at span 9
C8_Witness ==
    /\ corsi.phase = "results"
    /\ Corsi_CorrectAtMaxSpan(corsi.trials)
    /\ \E k \in 1 .. (Len(corsi.trials) - 1) :
          ~corsi.trials[k].correct /\ corsi.trials[k + 1].correct

Count(seq, e) == Cardinality({k \in 1 .. Len(seq) : seq[k] = e})

\* C9: Go/No-Go: every generated list has 30 trials, 21 go (circle) and 9
\* no-go (square), and is a permutation of the list before the shuffle.
C9_GoNoGoGeneration ==
    gonogo.phase # "instructions" =>
        /\ Len(gonogo.trials) = 30
        /\ Count(gonogo.trials, [type |-> "go", shape |-> "circle"]) = 21
        /\ Count(gonogo.trials, [type |-> "nogo", shape |-> "square"]) = 9
        /\ \A k \in 1 .. Len(GoNoGo_Unshuffled) :
              Count(gonogo.trials, GoNoGo_Unshuffled[k])
                  = Count(GoNoGo_Unshuffled, GoNoGo_Unshuffled[k])

\* a generated list that the shuffle made begin with a no-go trial
C9_Witness ==
    /\ gonogo.phase = "playing"
    /\ gonogo.trials[1].type = "nogo"
    /\ gonogo.trials[30].type = "go"

Dual_Tallied(results) ==
    results.positionHit + results.positionMiss + results.positionFA
        + results.audioHit + results.audioMiss + results.audioFA

\* C10: N-Back and Dual N-Back: no position below the level n is generated
\* as a target, judged a target or scored as one; the first n trials of Dual
\* N-Back add nothing to the counters.
C10_NoEarlyTargets ==
    /\ \A i \in nback.made : i >= nback.nLevel
    /\ \A k \in 1 .. Len(nback.results) :
          nback.results[k].position < nback.nLevel =>
              /\ ~nback.results[k].isTarget
              /\ nback.results[k].correct = ~nback.results[k].responded
    /\ \A i \in dual.madePos \cup dual.madeAudio : i >= dual.nLevel
    /\ (dual.phase = "playing" /\ dual.currentIndex < dual.nLevel) =>
          Dual_Tallied(dual.results) = 0
    /\ (dual.phase = "playing" /\ dual.currentIndex = dual.nLevel
           /\ dual.showStimulus) => Dual_Tallied(dual.results) = 0

\* the third trial of a Dual 3-Back is over and both keys were pressed in it
C10_Witness ==
    /\ dual.phase = "playing"
    /\ dual.nLevel = 3
    /\ dual.currentIndex = 2
    /\ ~dual.showStimulus
    /\ dual.positionResponse /\ dual.audioResponse

\* a is a percentage
IsPercentage(a) == a.den > 0 /\ 0 <= a.num /\ a.num <= 100 * a.den

\* a = 100 * correct / total
IsPercentOf(a, correct, total) == a.den > 0 /\ a.num * total = 100 * correct * a.den

CorrectAmong(results, total) ==
    Cardinality({k \in 1 .. total : k <= Len(results) /\ results[k].correct})

\* the positions of the N-Back sequence answered correctly
NBack_correctPositions(s) ==
    Cardinality({p \in 0 .. (NBack_TOTAL_TRIALS - 1) :
                    \E k \in 1 .. Len(s.results) :
                        s.results[k].position = p /\ s.results[k].correct})

AccuracyOf(a, results, total) ==
    IsPercentage(a) /\ IsPercentOf(a, CorrectAmong(results, total), total)

\* the seven games of the claim other than N-Back
C11_AccuracyButNBack ==
    /\ gonogo.phase = "results" =>
          AccuracyOf(GoNoGo_accuracy(gonogo), gonogo.results, 30)
    /\ stroop.phase = "results" =>
          AccuracyOf(Stroop_accuracy(stroop), stroop.results, 20)
    /\ flanker.phase = "results" =>
          AccuracyOf(Flanker_accuracy(flanker), flanker.results, 24)
    /\ tswitch.phase = "results" =>
          AccuracyOf(TaskSwitching_accuracy(tswitch), tswitch.results, 32)
    /\ corsi.phase = "results" =>
          AccuracyOf(Corsi_accuracy(corsi), corsi.trials, Len(corsi.trials))
    /\ ufov.phase = "results" =>
          /\ IsPercentage(UFOV_overallAccuracy(ufov))
          /\ IsPercentOf(UFOV_overallAccuracy(ufov),
                 Cardinality({k \in 1 .. 16 : k <= Len(ufov.results)
                                 /\ UFOV_bothCorrect(ufov.results[k])}), 16)
    /\ ravens.phase = "results" =>
          /\ IsPercentage(Ravens_accuracy(ravens))
          /\ IsPercentOf(Ravens_accuracy(ravens),
                 Cardinality({k \in 1 .. 8 : k <= Len(ravens.results)
                                 /\ ravens.results[k]}), 8)

\* C11: at the results of Go/No-Go, Stroop, N-Back, Flanker, Task Switching,
\* UFOV, Corsi and Raven's the accuracy shown lies in [0, 100] and is
\* 100 * (correct trials / trials of the session).
C11_Accuracy ==
    /\ C11_AccuracyButNBack
    /\ nback.phase = "results" =>
          /\ IsPercentage(NBack_accuracy(nback))
          /\ IsPercentOf(NBack_accuracy(nback), NBack_correctPositions(nback), 25)

\* the sum of the response times of the results at the indices K
RECURSIVE ResponseTimeOver(_, _)
ResponseTimeOver(results, K) ==
    IF K = {} THEN 0
    ELSE LET k == CHOOSE i \in K : TRUE
         IN results[k].responseTime + ResponseTimeOver(results, K \ {k})

\* d = (mean response time over A) - (mean response time over B)
IsMeanDifference(d, results, A, B) ==
    /\ A # {} /\ B # {} /\ d.den > 0
    /\ d.num * (Cardinality(A) * Cardinality(B))
          = (ResponseTimeOver(results, A) * Cardinality(B)
               - ResponseTimeOver(results, B) * Cardinality(A)) * d.den

\* C12: at the results the Flanker effect is the mean response time of the
\* incongruent trials minus that of the congruent trials, and the switch cost
\* of Task Switching is the mean response time of the switch trials minus that
\* of the repeat trials, over the recorded results.
C12_MeanDifferences ==
    /\ flanker.phase = "results" =>
          IsMeanDifference(Flanker_flankerEffect(flanker), flanker.results,
              {k \in 1 .. Len(flanker.results) :
                  flanker.results[k].trial.type = "incongruent"},
              {k \in 1 .. Len(flanker.results) :
                  flanker.results[k].trial.type = "congruent"})
    /\ tswitch.phase = "results" =>
          IsMeanDifference(TaskSwitching_switchCost(tswitch), tswitch.results,
              {k \in 1 .. Len(tswitch.results) : tswitch.results[k].trial.isSwitch},
              {k \in 1 .. Len(tswitch.results) : ~tswitch.results[k].trial.isSwitch})

\* a Flanker session whose effect is negative: a congruent trial was the slow one
C12_Witness ==
    /\ flanker.phase = "results"
    /\ Flanker_flankerEffect(flanker).den > 0
    /\ Flanker_flankerEffect(flanker).num < 0

\* sessions with a positive Flanker effect and with a switch cost of zero
C12_PositiveEffect ==
    flanker.phase = "results" /\ Flanker_flankerEffect(flanker).num > 0

C12_ZeroCost ==
    tswitch.phase = "results" /\ TaskSwitching_switchCost(tswitch).num = 0

\* new is old, or old with one entry added at its end
Appended(old, new) ==
    \/ new = old
    \/ Len(new) = Len(old) + 1 /\ SubSeq(new, 1, Len(old)) = old

\* the results of a mounted game are kept, gain one entry at their end, or
\* are emptied by the countdown that reaches 0
ResultsStep(s, t) ==
    \/ Appended(s.results, t.results)
    \/ /\ t.results = <<>>
       /\ s.phase = "countdown" /\ t.countdown = 0 /\ TrialLoop(t.phase)

BeginsPlay(s, t) == s.phase = "countdown" /\ TrialLoop(t.phase)

\* no result and trial index 0
FreshTrials(results, index) == results = <<>> /\ index = 0

FreshCorsi(t) ==
    t.currentSpan = 3 /\ t.consecutiveErrors = 0 /\ t.trials = <<>>

FreshHanoi(t) ==
    /\ t.moves = 0
    /\ t.towers[1] = [k \in 1 .. t.numDisks |-> t.numDisks + 1 - k]
    /\ t.towers[2] = <<>> /\ t.towers[3] = <<>>

C14_CorsiRestarted ==
    /\ route = Corsi_Route
    /\ corsi.phase = "showing" /\ FreshCorsi(corsi)
    /\ budget < lim.inputs

\* C15: when a game is left, every timer it had pending is cleared: no timer
\* of an unmounted game is pending, so none fires after the unmount.
C15_TimersCleared == orphans = {}

\* the Raven's feedback timer of a submitted answer outlives the game
C15_RavensTimerPending ==
    route = "/" /\ "Ravens.handleSubmit" \in orphans

\* the Corsi pause timer outlives the game
C15_CorsiPauseTimerPending ==
    route = "/" /\ "Corsi.pauseTimer" \in orphans

\* the Corsi click highlight timer outlives the game
C15_CorsiHighlightTimerPending ==
    route = "/" /\ "Corsi.handleBlockClick" \in orphans

\* what a timer of an unmounted game does when it fires changes no game
C15_OrphansUpdateNothing ==
    [][orphans' # orphans /\ route' = route => games' = games]_vars

\* the ids of the catalog
Catalog_ids == {Catalog_games[k].id : k \in 1 .. Len(Catalog_games)}

\* C16: at a path /games/<id> whose id is no game id of the catalog the
\* application shows the "Game Not Found" view.
C16_GameNotFound ==
    \A t \in TypedPaths :
        route = t.path /\ t.gameId \notin Catalog_ids =>
            App_rendered(route) = "GamePage" /\ GamePage(t.gameId) = "Game Not Found"

\* at such a path no route matches and nothing is rendered
C16_NothingRendered ==
    \A t \in TypedPaths :
        route = t.path /\ t.gameId \notin Catalog_ids => App_rendered(route) = "nothing"

\* such a path is open
C16_TypedPathOpen ==
    \E t \in TypedPaths : route = t.path /\ t.gameId \notin Catalog_ids

\* the sum of the counts of the categories
RECURSIVE SumCounts(_, _)
SumCounts(counts, categories) ==
    IF categories = {} THEN 0
    ELSE LET c == CHOOSE c \in categories : TRUE
         IN counts[c] + SumCounts(counts, categories \ {c})

\* C19: the catalog the marketplace shows holds 15 games in exactly 4
\* categories, and the counts on its category filters add up to the number of
\* games.
C19_Catalog ==
    App_rendered(route) = "Marketplace" =>
    /\ Len(Catalog_games) = 15
    /\ Cardinality(DOMAIN getCategoriesWithCounts) = 4
    /\ SumCounts(getCategoriesWithCounts, DOMAIN getCategoriesWithCounts) = Len(Catalog_games)

\* the catalog but for the number of its games: 4 categories, whose counts
\* add up to the number of games
C19_CategoriesAndCounts ==
    App_rendered(route) = "Marketplace" =>
    /\ Cardinality(DOMAIN getCategoriesWithCounts) = 4
    /\ SumCounts(getCategoriesWithCounts, DOMAIN getCategoriesWithCounts) = Len(Catalog_games)
    /\ \A c \in DOMAIN getCategoriesWithCounts :
          getCategoriesWithCounts[c] =
              Cardinality({k \in 1 .. Len(Catalog_games) : Catalog_games[k].category = c})

\* the games the marketplace navigates to are the games App routes
C19_CatalogRouted ==
    {Catalog_games[k].route : k \in 1 .. Len(Catalog_games)} = GameRoutes

\* the trail of the game
Trail_ORDER == <<"1", "A", "2", "B", "3", "C", "4", "D", "5", "E", "6", "F", "7">>

\* the values of the visited nodes
Trail_visitedValues(s) ==
    [k \in 1 .. Len(s.visitedNodes) |-> s.nodes[s.visitedNodes[k] + 1].value]

\* during play the visited nodes are the first currentIndex nodes of the trail
Trail_VisitedIsPrefix ==
    trail.phase = "playing" =>
        /\ Len(trail.visitedNodes) = trail.currentIndex
        /\ Trail_visitedValues(trail) = SubSeq(Trail_ORDER, 1, trail.currentIndex)

\* a step of the game in play: progress is made by a click on the node the
\* trail asks for next, and by nothing else; the click on the 13th node, and
\* no other step, ends the game
Trail_ProgressStep ==
    route' = route /\ trail.phase = "playing" /\ trail' # trail =>
        /\ input' = "handleNodeClick"
        /\ \/ /\ trail'.visitedNodes = trail.visitedNodes
              /\ trail'.currentIndex = trail.currentIndex
              /\ trail'.phase = "playing"
           \/ /\ Len(trail'.visitedNodes) = trail.currentIndex + 1
              /\ Trail_visitedValues(trail') = SubSeq(Trail_ORDER, 1, trail.currentIndex + 1)
              /\ IF Len(trail'.visitedNodes) = 13
                 THEN trail'.phase = "results"
                 ELSE trail'.phase = "playing" /\ trail'.currentIndex = trail.currentIndex + 1

\* C17: Trail Making advances only by clicks on the nodes in the order
\* 1, A, 2, B, ..., 7; the results are reached exactly when the 13th node is
\* clicked; and during play the visited nodes are the first currentIndex
\* nodes of that order.
C17_TrailOrder == []Trail_VisitedIsPrefix /\ [][Trail_ProgressStep]_vars

\* the trail is finished, after one wrong click on the way
C17_Witness ==
    /\ trail.phase = "results"
    /\ Trail_visitedValues(trail) = Trail_ORDER
    /\ trail.errors = 1

\* C18: the sets Operation Span has presented so far, the one in progress
\* included, never decrease in size from one to the next.
C18_IncreasingSets ==
    TrialLoop(ospan.phase) =>
        \A k \in 1 .. ospan.currentSetIndex :
            ospan.allSets[k].setSize <= ospan.allSets[k + 1].setSize

\* the sets of a session are 10, two of each size from 3 to 7
C18_TwoPerSize ==
    TrialLoop(ospan.phase) =>
        /\ Len(ospan.allSets) = 10
        /\ \A size \in 3 .. 7 :
              Cardinality({k \in 1 .. 10 : ospan.allSets[k].setSize = size}) = 2

\* a second set is presented
C18_SecondSet == ospan.phase = "equation" /\ ospan.currentSetIndex = 1

\* the positions of the sequence that repeat the letter nLevel places back
NBack_targetPositions(s) ==
    {p \in s.nLevel .. Len(s.sequence) - 1 : s.sequence[p + 1] = s.sequence[p + 1 - s.nLevel]}

\* C20: at the N-Back results every one of the 25 positions has exactly one
\* result entry, so hits + misses + false alarms + correct rejections = 25
\* and hits + misses = the number of target positions.
C20_OneResultPerPosition ==
    nback.phase = "results" =>
        LET stats == NBack_calculateStats(nback)
        IN /\ \A p \in 0 .. 24 :
                Cardinality({k \in 1 .. Len(nback.results) :
                                nback.results[k].position = p}) = 1
           /\ stats.hits + stats.misses + stats.falseAlarms
                 + stats.correctRejections = 25
           /\ stats.hits + stats.misses = Cardinality(NBack_targetPositions(nback))

\* while a letter is shown, and until its blank interval is over, its
\* position has at most one result entry
C20_OneWhileShown ==
    nback.phase = "playing" /\ nback.showLetter =>
        Cardinality({k \in 1 .. Len(nback.results) :
                        nback.results[k].position = nback.currentIndex}) <= 1

\* a position with two result entries: the timeout's and the late press's
C20_TwoResults ==
    /\ nback.phase = "playing" /\ ~nback.showLetter
    /\ Cardinality({k \in 1 .. Len(nback.results) :
                       nback.results[k].position = nback.currentIndex}) = 2

\* C21: in Go/No-Go, Stroop, N-Back and Dual N-Back a session that has been
\* started reaches the results, whatever the user does or does not do, when
\* every pending timer fires in the end.
C21_ReachesResults ==
    /\ (gonogo.phase = "countdown") ~> (gonogo.phase = "results")
    /\ (stroop.phase = "countdown") ~> (stroop.phase = "results")
    /\ (nback.phase = "countdown") ~> (nback.phase = "results")
    /\ (dual.phase = "countdown") ~> (dual.phase = "results")

\* the results of a Go/No-Go session in which the user gave no input at all
C21_Witness ==
    /\ gonogo.phase = "results"
    /\ budget = lim.inputs
    /\ \A k \in 1 .. Len(gonogo.results) : ~gonogo.results[k].responded
    /\ Len(gonogo.results) = GoNoGo_TOTAL_TRIALS

\* the result a step of Go/No-Go has recorded: by a response, correct exactly
\* on a go trial and with a response time; by the timeout, correct exactly on
\* a no-go trial and with no response time
GoNoGo_ScoredStep ==
    route' = route /\ Len(gonogo'.results) = Len(gonogo.results) + 1 =>
        LET r == gonogo'.results[Len(gonogo'.results)]
        IN /\ r.trial = gonogo.trials[gonogo.currentTrial + 1]
           /\ IF input' = "handleResponse"
              THEN /\ r.responded /\ r.responseTime # Null
                   /\ r.correct <=> r.trial.type = "go"
              ELSE /\ ~r.responded /\ r.responseTime = Null
                   /\ r.correct <=> r.trial.type = "nogo"

\* at the results hit rate + miss rate = 100 over the go trials and
\* correct-rejection rate + false-alarm rate = 100 over the no-go trials
GoNoGo_RatesAddUp ==
    gonogo.phase = "results" =>
        LET stats == GoNoGo_calculateStats(gonogo)
            K == 1 .. Len(gonogo.results)
            go == {k \in K : gonogo.results[k].trial.type = "go"}
            missed == {k \in go : ~gonogo.results[k].responded}
        IN /\ stats.hitRate.den = Cardinality(go)
           /\ stats.hitRate.num + 100 * Cardinality(missed) = 100 * Cardinality(go)
           /\ stats.correctRejectionRate.den = stats.falseAlarmRate.den
           /\ stats.correctRejectionRate.num + stats.falseAlarmRate.num
                 = 100 * stats.falseAlarmRate.den
           /\ stats.falseAlarmRate.num = 100 * Cardinality(
                 {k \in K \ go : gonogo.results[k].responded})

\* C22: Go/No-Go records a trial ended by a response as correct exactly when
\* it is a go trial, with its response time, and a trial ended by the timeout
\* as correct exactly when it is a no-go trial, with a null response time; at
\* the results hit rate + miss rate = 100% and inhibition success +
\* false-alarm rate = 100%.
C22_GoNoGoScoring == []GoNoGo_RatesAddUp /\ [][GoNoGo_ScoredStep]_vars

\* the results of a session with a false alarm, the other trials timed out
C22_Witness ==
    /\ gonogo.phase = "results"
    /\ \E k \in 1 .. Len(gonogo.results) :
          /\ gonogo.results[k].responded
          /\ gonogo.results[k].trial.type = "nogo"
    /\ \E k \in 1 .. Len(gonogo.results) :
          ~gonogo.results[k].responded /\ gonogo.results[k].trial.type = "go"

\* the positions of the Dual N-Back sequence whose field repeats the one
\* nLevel trials back
Dual_targetPositions(s, field) ==
    {p \in s.nLevel .. Len(s.sequence) - 1 :
        s.sequence[p + 1][field] = s.sequence[p + 1 - s.nLevel][field]}

\* C23: in every generated N-Back sequence the positions i >= n that repeat
\* the letter n back are exactly the positions created as targets, at most 7
\* of them; in every Dual N-Back sequence the same holds for the positions
\* and for the letters, at most 6 of each.
C23_TargetsAsMade ==
    /\ nback.sequence # <<>> =>
          /\ Len(nback.sequence) = 25
          /\ NBack_targetPositions(nback) = nback.made
          /\ Cardinality(nback.made) <= 7
    /\ dual.sequence # <<>> =>
          /\ Len(dual.sequence) = 25
          /\ Dual_targetPositions(dual, "position") = dual.madePos
          /\ Dual_targetPositions(dual, "letter") = dual.madeAudio
          /\ Cardinality(dual.madePos) <= 6
          /\ Cardinality(dual.madeAudio) <= 6

\* an N-Back sequence with all 7 targets, two of them on consecutive positions
C23_Witness ==
    /\ nback.sequence # <<>>
    /\ Cardinality(nback.made) = 7
    /\ \E i \in nback.made : i + 1 \in nback.made

\* a Dual N-Back sequence with 6 position targets
C23_DualFull == dual.sequence # <<>> /\ Cardinality(dual.madePos) = 6

\* the counters of one modality after the trial at the current index is
\* tallied: a hit or a miss on a target, a false alarm or nothing otherwise
Dual_TalliedOnce(hit, miss, fa, hit2, miss2, fa2, isTarget, pressed) ==
    /\ hit2 = hit + (IF isTarget /\ pressed THEN 1 ELSE 0)
    /\ miss2 = miss + (IF isTarget /\ ~pressed THEN 1 ELSE 0)
    /\ fa2 = fa + (IF ~isTarget /\ pressed THEN 1 ELSE 0)

\* a step of Dual N-Back in play: the counters change at the stimulus offset
\* of a trial at index >= n and nowhere else, by the tally of that trial; a
\* stimulus comes up with no press recorded; a key press changes no counter
Dual_ScoringStep ==
    route' = route /\ dual.phase = "playing" =>
        LET r == dual.results
            r2 == dual'.results
            offset == dual.showStimulus /\ ~dual'.showStimulus
            i == dual.currentIndex
        IN /\ offset /\ i >= dual.nLevel =>
                /\ Dual_TalliedOnce(r.positionHit, r.positionMiss, r.positionFA,
                       r2.positionHit, r2.positionMiss, r2.positionFA,
                       i \in Dual_targetPositions(dual, "position"),
                       dual.positionResponse)
                /\ Dual_TalliedOnce(r.audioHit, r.audioMiss, r.audioFA,
                       r2.audioHit, r2.audioMiss, r2.audioFA,
                       i \in Dual_targetPositions(dual, "letter"),
                       dual.audioResponse)
           /\ ~(offset /\ i >= dual.nLevel) => r2 = r
           /\ offset => input' = "none"
           /\ dual'.showStimulus /\ ~dual.showStimulus =>
                /\ ~dual'.positionResponse /\ ~dual'.audioResponse
                /\ dual'.currentIndex = i + 1

\* play begins with the first stimulus up and no press recorded
Dual_FirstStimulus ==
    dual.phase = "playing" /\ dual.currentIndex = 0 /\ dual.showStimulus
        /\ input = "none" => ~dual.positionResponse /\ ~dual.audioResponse

\* at the results, for each modality, hits + misses are the targets of the
\* sequence and the false alarms are at most the other trials at index >= n
Dual_CountersAtResults ==
    dual.phase = "results" =>
        LET r == dual.results
            scoredTrials == Dual_TOTAL_TRIALS - dual.nLevel
            pos == Cardinality(Dual_targetPositions(dual, "position"))
            aud == Cardinality(Dual_targetPositions(dual, "letter"))
        IN /\ r.positionHit + r.positionMiss = pos
           /\ r.audioHit + r.audioMiss = aud
           /\ r.positionFA <= scoredTrials - pos
           /\ r.audioFA <= scoredTrials - aud

\* C24: Dual N-Back tallies each trial at index >= n exactly once, at its
\* stimulus offset, from the presses made while the stimulus was shown; for
\* each modality hits + misses = targets and false alarms <= non-targets at
\* index >= n; a press in the blank interval changes no counter.
C24_DualScoring ==
    /\ [](Dual_FirstStimulus /\ Dual_CountersAtResults)
    /\ [][Dual_ScoringStep]_vars

\* the results of a session with a hit on a position target
C24_Witness == dual.phase = "results" /\ dual.results.positionHit = 1

\* a press made in the blank interval of a scored trial
C24_BlankPress ==
    /\ dual.phase = "playing" /\ ~dual.showStimulus
    /\ dual.currentIndex >= dual.nLevel
    /\ dual.audioResponse /\ input = "handleAudioResponse"

\* the word of the trial names its background colour
Stroop_wordNamesBackground(t) == t.word = t.backgroundColorName

\* the trial shown and the trials recorded carry a truthful isMatch
Stroop_TruthfulTrials ==
    /\ stroop.trial # Stroop_NullTrial =>
          (stroop.trial.isMatch <=> Stroop_wordNamesBackground(stroop.trial))
    /\ \A k \in 1 .. Len(stroop.results) :
          stroop.results[k].trial.isMatch
              <=> Stroop_wordNamesBackground(stroop.results[k].trial)

\* the result a step of Stroop has recorded: an answer is correct exactly
\* when it agrees with what is shown; a timeout is incorrect and carries the
\* full trial duration
Stroop_JudgedStep ==
    route' = route /\ Len(stroop'.results) = Len(stroop.results) + 1 =>
        LET r == stroop'.results[Len(stroop'.results)]
        IN /\ r.trial = stroop.trial
           /\ IF input' = "handleResponse"
              THEN r.correct <=> (r.response <=> Stroop_wordNamesBackground(r.trial))
              ELSE /\ ~r.correct
                   /\ stroop'.feedback = "timeout"
                   /\ r.responseTime =
                         (CASE stroop.speedLevel = "slow" -> 3000
                            [] stroop.speedLevel = "normal" -> 2000
                            [] stroop.speedLevel = "fast" -> 1200)

\* C25: every Stroop trial has isMatch true exactly when its word names its
\* background colour; an answer is recorded as correct exactly when it
\* agrees with that; a trial ended by the timeout is recorded as incorrect
\* with the full trial duration as its response time.
C25_StroopJudgement == []Stroop_TruthfulTrials /\ [][Stroop_JudgedStep]_vars

\* the results of a session with a right "no match" answer and a timeout
C25_Witness ==
    /\ stroop.phase = "results"
    /\ \E k \in 1 .. Len(stroop.results) :
          LET r == stroop.results[k]
          IN ~r.trial.isMatch /\ ~r.response /\ r.correct /\ r.responseTime = 400
    /\ \E k \in 1 .. Len(stroop.results) :
          ~stroop.results[k].correct /\ stroop.results[k].responseTime = 2000

\* the results the timeout has recorded: no answer, and exactly the trial
\* duration as response time (an answer never carries exactly that value)
Stroop_timedOut(s) ==
    {k \in 1 .. Len(s.results) :
        /\ ~s.results[k].response /\ ~s.results[k].correct
        /\ s.results[k].responseTime = Stroop_trialDuration(s.speedLevel)}

\* C26: at the Stroop results the Timeouts figure is the number of trials the
\* timer ended, and the average response time is the mean over exactly the
\* trials the user answered.
C26_StroopStatistics ==
    stroop.phase = "results" =>
        LET stats == Stroop_calculateStats(stroop)
            answered == (1 .. Len(stroop.results)) \ Stroop_timedOut(stroop)
        IN /\ stats.timeouts = Cardinality(Stroop_timedOut(stroop))
           /\ stats.answered = Cardinality(answered)
           /\ answered # {} =>
                 stats.avgResponseTime.num * Cardinality(answered)
                    = ResponseTimeOver(stroop.results, answered) * stats.avgResponseTime.den

\* the same, for sessions whose answers all came in before the trial duration
C26_ButLateAnswers ==
    (\A k \in 1 .. Len(stroop.results) :
        stroop.results[k].responseTime <= Stroop_trialDuration(stroop.speedLevel))
        => C26_StroopStatistics

\* the results of a session with an answer given during the last tick, later
\* than the trial duration
C26_LateAnswer ==
    /\ stroop.phase = "results"
    /\ \E k \in 1 .. Len(stroop.results) :
          stroop.results[k].responseTime > Stroop_trialDuration(stroop.speedLevel)

\* C27: for every length L from 3 to 9 generateSequence returns exactly L
\* block ids, each from 0 to 8, no two neighbours equal.
C27_CorsiSequence ==
    corsi.sequence # <<>> =>
        /\ corsi.currentSpan \in 3 .. 9
        /\ Len(corsi.sequence) = corsi.currentSpan
        /\ \A k \in 1 .. Len(corsi.sequence) : corsi.sequence[k] \in 0 .. 8
        /\ \A k \in 1 .. Len(corsi.sequence) - 1 :
              corsi.sequence[k] # corsi.sequence[k + 1]

\* a sequence of 9 blocks in which a block comes twice, not in a row
C27_Witness ==
    /\ Len(corsi.sequence) = 9
    /\ \E i, j \in 1 .. 9 : j > i + 1 /\ corsi.sequence[i] = corsi.sequence[j]

Corsi_SpanInRange ==
    /\ corsi.currentSpan \in 3 .. 9
    /\ corsi.phase \in {"instructions", "countdown"} => corsi.currentSpan = 3
    /\ \A k \in 1 .. Len(corsi.trials) : corsi.trials[k].span \in 3 .. 9
    /\ \A k \in 1 .. Len(corsi.trials) - 1 :
          corsi.trials[k + 1].span =
              IF corsi.trials[k].correct THEN corsi.trials[k].span + 1
              ELSE corsi.trials[k].span

Corsi_SpanStep ==
    /\ IF input' = "startGame" THEN corsi'.currentSpan = 3
       ELSE IF corsi.phase = "feedback" /\ corsi'.phase # "feedback"
       THEN LET last == corsi.trials[Len(corsi.trials)]
            IN corsi'.currentSpan =
                 IF last.correct /\ corsi.currentSpan < 9
                 THEN corsi.currentSpan + 1 ELSE corsi.currentSpan
       ELSE corsi'.currentSpan = corsi.currentSpan
    /\ input' # "startGame" => corsi'.currentSpan >= corsi.currentSpan
    /\ Len(corsi'.trials) = Len(corsi.trials) + 1 =>
          /\ corsi.phase = "responding"
          /\ corsi'.trials[Len(corsi'.trials)].span = corsi.currentSpan

\* C28: Corsi: the span starts at 3, goes up by exactly 1 after each correct
\* trial below span 9, stays after an incorrect trial, never goes down within
\* a session and is always within 3..9; each recorded trial carries the span
\* that was current when it was answered.
C28_SpanProgression == []Corsi_SpanInRange /\ [][Corsi_SpanStep]_vars

\* a trial repeated at its span after an error, answered right, and the span
\* one higher in the trial that follows
C28_Witness ==
    /\ corsi.phase = "responding"
    /\ \E k \in 1 .. Len(corsi.trials) - 1 :
          /\ ~corsi.trials[k].correct
          /\ corsi.trials[k + 1].correct
          /\ corsi.trials[k + 1].span = corsi.trials[k].span
          /\ corsi.currentSpan = corsi.trials[k].span + 1

\* the staircase value a recorded trial leaves behind
UFOV_after(r) ==
    IF r.centerCorrect /\ r.peripheralCorrect
    THEN (IF r.trial.displayTime - 50 < 50 THEN 50 ELSE r.trial.displayTime - 50)
    ELSE (IF r.trial.displayTime + 50 > 500 THEN 500 ELSE r.trial.displayTime + 50)

UFOV_TrialDisplayTimes ==
    /\ ufov.results # <<>> => ufov.results[1].trial.displayTime = 500
    /\ \A k \in 1 .. Len(ufov.results) - 1 :
          ufov.results[k + 1].trial.displayTime = UFOV_after(ufov.results[k])
    /\ ufov.phase \in {"fixation", "stimulus", "mask", "response"} =>
          /\ ufov.trial.displayTime = ufov.displayTime
          /\ ufov.trial.displayTime =
                IF ufov.results = <<>> THEN 500
                ELSE UFOV_after(ufov.results[Len(ufov.results)])

UFOV_SubmitStep ==
    input' = "handleSubmitResponse" =>
        IF ufov.centerResponse = "null" \/ ufov.peripheralResponse = Null
        THEN /\ ufov'.results = ufov.results
             /\ ufov'.displayTime = ufov.displayTime
             /\ ufov'.phase = ufov.phase
        ELSE /\ Len(ufov'.results) = Len(ufov.results) + 1
             /\ ufov'.results[Len(ufov'.results)].trial = ufov.trial
             /\ ufov'.displayTime = UFOV_after(ufov'.results[Len(ufov'.results)])

\* C29: UFOV: the display time a trial is shown with and recorded with is the
\* staircase value the submission of the trial before it produced, and 500
\* for the first trial; a submission with the centre or the peripheral answer
\* missing records nothing and changes neither display time nor phase.
C29_DisplayTimeOfTrial == []UFOV_TrialDisplayTimes /\ [][UFOV_SubmitStep]_vars

\* a submission without the peripheral answer, in a trial shown for 450 ms
\* after a first trial answered right
C29_Witness ==
    /\ input = "handleSubmitResponse"
    /\ ufov.phase = "response"
    /\ ufov.centerResponse # "null" /\ ufov.peripheralResponse = Null
    /\ Len(ufov.results) = 1
    /\ ufov.trial.displayTime = 450

\* a trial under way at a display time that went down and up again
C29_UpAgain ==
    /\ ufov.phase = "stimulus"
    /\ ufov.trial.displayTime = 450
    /\ Len(ufov.results) = 3

=============================================================================
